---- MODULE Spec2Model ----
(***************************************************************************)
(* CookieGL: a retained-mode 2D scene graph (CGLCanvas) holding shapes      *)
(* (CGLObject subclasses), with a self-rescheduling render loop and         *)
(* click / hover dispatch by hit-testing.                                   *)
(*                                                                          *)
(* The model follows the revision that keeps the pointer position in the    *)
(* scene and resolves hover once per render pass.                           *)
(***************************************************************************)
EXTENDS Integers, Sequences, FiniteSets, TLC

(***************************************************************************)
(* Bounds of the model.                                                     *)
(***************************************************************************)
NumScenes == 2
NumShapes == 2
MaxId == 1
MaxPx == 1
MaxListeners == 1
MaxSubs == 2
MaxTicks == 1
MaxVel == 1
MaxAcc == 1
MaxSpin == 1
MaxWidth == 2
MaxGrid == 3
HitWidth == 4
HitHeight == 2
MaxPattern == 3
MaxFrameTicks == 6
MaxTimers == 3
MaxDepth == 2
RectSize == 2
CanvasHeight == 3

Scenes == 1..NumScenes
Shapes == 1..NumShapes
\* the values __cglRandomID() can return (a random 32-bit integer, 0 included)
IdPool == 0..MaxId

\* JavaScript null, for a field that otherwise holds <<value>>
Null == <<>>
\* append() / prepend() called with null or without an argument
NoObj == 0

VARIABLES
    sceneId,        \* CGLCanvas.id
    height,         \* CGLCanvas.#height
    children,       \* CGLCanvas.#children, back to front
    canvasID,       \* CGLObject.canvasID: Null or <<id of the owning scene>>
    isVisible,      \* CGLObject.isVisible
    ignoreClicks,   \* CGLObject.ignoreClicks
    eventListeners, \* CGLObject.#eventListeners: per kind, the {callback, id} entries in order
    refreshTimeout, \* CGLCanvas.#refreshTimeout: Null or <<timer id>>
    timers,         \* the host's pending setTimeout timers, as [id, scene]
    mousePos,       \* CGLCanvas.#mousePos: Null or <<x, y>> (bottom-left origin)
    cursorStyle,    \* canvas.style.cursor of each scene's surface
    stack,          \* the JavaScript call stack: the dispatches in progress
    invoked,        \* the callbacks invoked so far by the current host task
    stopCalled,     \* history: stop() was called and start() has not been since
    op,             \* the call made in the last step and what returned in it
    kind,           \* the class of each CGLObject: "poly", "rect", "ellipse", "image"
    paint,          \* CGLObject.fillColor, outlineColor, outlineThickness
    geometry,       \* the private fields of CGLPoly, CGLRect, CGLEllipse, CGLImage
    physics,        \* CGLObject.x, y, velocity, acceleration, rotation, ..., #lastUpdate
    now,            \* Date.now(), in ms
    ctx,            \* the 2d context: transform, lineWidth, fillStyle, strokeStyle, save stack
    ops             \* the calls the current host task made on shapes and on the context

sceneVars == <<sceneId, height, children, canvasID>>
shapeVars == <<isVisible, ignoreClicks, eventListeners>>
loopVars == <<refreshTimeout, timers, mousePos, cursorStyle, stack, invoked, stopCalled>>
bodyVars == <<kind, paint, geometry>>
passVars == <<physics, ctx, ops>>
renderVars == <<bodyVars, now, passVars>>
vars == <<sceneVars, shapeVars, loopVars, op, renderVars>>

NoPos == <<>>
NoOp == [call |-> "none", scene |-> 0, shape |-> 0, pos |-> NoPos,
         threw |-> FALSE, kind |-> "", id |-> <<>>, arg |-> <<>>, done |-> "", passes |-> 0]
\* a call on scene s (and shape sh) that returns in the same step
Call(n, s, sh, t) == [NoOp EXCEPT !.call = n, !.scene = s, !.shape = sh, !.threw = t]

\* the event loop is between host tasks: nothing runs and nothing is logged
Idle == stack = <<>> /\ op = NoOp

InitCore ==
    /\ sceneId \in [Scenes -> IdPool]
    /\ height = [s \in Scenes |-> CanvasHeight]
    /\ children = [s \in Scenes |-> <<>>]
    /\ canvasID = [sh \in Shapes |-> Null]
    /\ isVisible = [sh \in Shapes |-> TRUE]
    /\ ignoreClicks = [sh \in Shapes |-> FALSE]
    /\ eventListeners = [sh \in Shapes |-> [click |-> <<>>, hover |-> <<>>]]
    /\ refreshTimeout = [s \in Scenes |-> Null]
    /\ timers = {}
    /\ mousePos = [s \in Scenes |-> Null]
    /\ cursorStyle = [s \in Scenes |-> ""]
    /\ Idle
    /\ invoked = <<>>
    /\ stopCalled = [s \in Scenes |-> FALSE]
    /\ op = NoOp

(***************************************************************************)
(* Construction of the shapes                                               *)
(***************************************************************************)
\* CGLObject's constructor and field initialisers, with no options but cursor
NewObject(x, y) ==
    [x |-> x, y |-> y,
     velocity |-> [x |-> 0, y |-> 0], acceleration |-> [x |-> 0, y |-> 0],
     rotation |-> 0, angularVelocity |-> 0, angularAcceleration |-> 0,
     lastUpdate |-> 0]

\* options.fillColor ?? "transparent"; the outline is black when there is no
\* fill and no outline colour, transparent when there is a fill only
NewPaint(fillColor, outlineColor) ==
    [fillColor |-> IF fillColor = Null THEN "transparent" ELSE fillColor[1],
     outlineColor |->
        IF outlineColor # Null THEN outlineColor[1]
        ELSE IF fillColor = Null \/ fillColor = <<"transparent">> THEN "black"
        ELSE "transparent",
     outlineThickness |-> 1]

RECURSIVE SumSeq(_)
SumSeq(q) == IF q = <<>> THEN 0 ELSE Head(q) + SumSeq(Tail(q))

\* "determine centroid": the mean of the vertices as positioned at x, y
MeanX(vertices, x) ==
    SumSeq([i \in 1..Len(vertices) |-> vertices[i][1] + x]) \div Len(vertices)
MeanY(vertices, y) ==
    SumSeq([i \in 1..Len(vertices) |-> vertices[i][2] + y]) \div Len(vertices)

\* CGLRect's constructor: [[0, 0], [0, height], [width, height], [width, 0]]
RectVertices(w, h) == <<<<0, 0>>, <<0, h>>, <<w, h>>, <<w, 0>>>>

MinOf(S) == CHOOSE i \in S : \A j \in S : i <= j
MaxOf(S) == CHOOSE i \in S : \A j \in S : j <= i

\* revision 2.0.0, "determine min and max x and y values": #minX, #maxX,
\* #minY and #maxY of the vertices as positioned at x, y
BoundingBox(x, y, vertices) ==
    LET xVert == {vertices[i][1] : i \in 1..Len(vertices)}
        yVert == {vertices[i][2] : i \in 1..Len(vertices)}
    IN [minX |-> x + MinOf(xVert), maxX |-> x + MaxOf(xVert),
        minY |-> y + MinOf(yVert), maxY |-> y + MaxOf(yVert)]

\* the private fields after CGLPoly's constructor; the fields of the other
\* classes are not there. box holds the four bounds revision 2.0.0 caches in
\* place of the centroid.
NewPoly(x, y, vertices) ==
    [vertices |-> vertices, box |-> BoundingBox(x, y, vertices),
     centroidX |-> MeanX(vertices, x), centroidY |-> MeanY(vertices, y),
     width |-> Null, height |-> Null,
     src |-> Null, img |-> Null,
     horizLength |-> Null, vertLength |-> Null, frames |-> Null]

\* ... after CGLRect's constructor
NewRect(x, y, w, h) ==
    [NewPoly(x, y, RectVertices(w, h)) EXCEPT !.width = <<w>>, !.height = <<h>>]

\* ... after CGLImage's constructor: new Image(width, height), then src
NewImage(x, y, w, h, imagePath) ==
    [NewRect(x, y, w, h) EXCEPT
        !.src = <<imagePath>>,
        !.img = [width |-> w, height |-> h, src |-> imagePath]]

\* CGLFrames' constructor. frameTime is [array |-> FALSE, of |-> a number] or
\* [array |-> TRUE, of |-> a list of numbers]; pattern is Null when not given,
\* else <<a list of indices>>. An entry of #pattern is <<index>>, or Null for
\* undefined.
FramesPattern(frameURLs, pattern) ==
    IF pattern # Null
    THEN [i \in 1..Len(pattern[1]) |-> <<pattern[1][i]>>]
    \* frameURLs.map(({index}) => index): the property `index` of each URL string
    ELSE [i \in 1..Len(frameURLs) |-> Null]

\* the constructor throws: an index past the frames, a list of times that is
\* not as long as the pattern, or no first frame to hand to CGLImage
FramesThrows(frameURLs, frameTime, pattern) ==
    \/ pattern # Null /\ \E i \in 1..Len(pattern[1]) : pattern[1][i] >= Len(frameURLs)
    \/ frameTime.array /\ Len(FramesPattern(frameURLs, pattern)) # Len(frameTime.of)
    \/ frameURLs = <<>>

\* ... after CGLFrames' constructor, at Date.now() = t
NewFrames(x, y, w, h, frameURLs, frameTime, pattern, t) ==
    [NewImage(x, y, w, h, frameURLs[1]) EXCEPT !.frames =
        <<[frameURLs |-> frameURLs,
           frameTimes |-> IF frameTime.array THEN frameTime.of
                          ELSE [i \in 1..Len(FramesPattern(frameURLs, pattern)) |->
                                    frameTime.of],
           frameIndex |-> 0,
           pattern |-> FramesPattern(frameURLs, pattern),
           createdTimestamp |-> t,
           duration |-> IF frameTime.array THEN SumSeq(frameTime.of)
                        ELSE frameTime.of * Len(FramesPattern(frameURLs, pattern))]>>]

\* ... after CGLEllipse's constructor
NewEllipse(horizLength, vertLength) ==
    [vertices |-> <<>>, box |-> Null, centroidX |-> 0, centroidY |-> 0,
     width |-> Null, height |-> Null, src |-> Null, img |-> Null,
     horizLength |-> <<horizLength>>, vertLength |-> <<vertLength>>, frames |-> Null]

\* the cursor option each shape was constructed with; "" is the default
ShapeCursor(sh) == IF sh = 1 THEN "grab" ELSE IF sh = 2 THEN "pointer" ELSE ""

\* the identity transform, as the matrix [a, b, c, d, e, f]
Identity == [a |-> 1, b |-> 0, c |-> 0, d |-> 1, e |-> 0, f |-> 0]

\* canvasElem.getContext("2d") of a fresh canvas
NewContext ==
    [transform |-> Identity, lineWidth |-> 1, fillStyle |-> "#000000",
     strokeStyle |-> "#000000", saved |-> <<>>]

\* shape sh is new CGLRect(sh - 1, 0, RectSize, RectSize, {cursor}), at rest
InitRects ==
    /\ kind = [sh \in Shapes |-> "rect"]
    /\ paint = [sh \in Shapes |-> NewPaint(Null, Null)]
    /\ geometry = [sh \in Shapes |-> NewRect(sh - 1, 0, RectSize, RectSize)]
    /\ physics = [sh \in Shapes |-> NewObject(sh - 1, 0)]

InitHost ==
    /\ now = 0
    /\ ctx = NewContext
    /\ ops = <<>>

Init == InitCore /\ InitRects /\ InitHost

\* the velocities (px/s), accelerations (px/s/s), angular velocities
\* (degrees/s) and angular accelerations application code assigns
Velocities == {10 * k : k \in 0..MaxVel}
Accelerations == {4 * k : k \in -MaxAcc..MaxAcc}
Spins == {180 * k : k \in 0..MaxSpin}
SpinUps == {360 * k : k \in 0..MaxSpin}

\* the shapes application code sets in motion
Movers == {1}

Motions(sh) ==
    {[NewObject(sh - 1, 0) EXCEPT
        !.velocity = [x |-> vx, y |-> vy],
        !.acceleration = [x |-> ax, y |-> ay],
        !.angularVelocity = av, !.angularAcceleration = aa] :
     vx \in Velocities, vy \in Velocities, ax \in Accelerations,
     ay \in Accelerations, av \in Spins, aa \in SpinUps}

\* the rectangles, those of Movers set in motion right after construction
InitMoving ==
    /\ kind = [sh \in Shapes |-> "rect"]
    /\ paint = [sh \in Shapes |-> NewPaint(Null, Null)]
    /\ geometry = [sh \in Shapes |-> NewRect(sh - 1, 0, RectSize, RectSize)]
    /\ \E m \in Motions(1) :
            physics = [sh \in Shapes |-> IF sh \in Movers THEN [m EXCEPT !.x = sh - 1]
                                         ELSE NewObject(sh - 1, 0)]

\* the classes of shape 1 in the drawing specifications, the colour options
\* it is constructed with and the context settings of the page
Kinds == {"poly", "rect", "ellipse", "image"}
Fills == {Null, <<"red">>}
Outlines == {Null, <<"transparent">>, <<"blue">>}
Settings == {[lineWidth |-> 1, fillStyle |-> "#000000"],
             [lineWidth |-> 3, fillStyle |-> "#00ff00"]}

\* a triangle whose centroid has whole coordinates
Triangle == <<<<0, 0>>, <<0, 3>>, <<3, 0>>>>

\* the private fields of a new shape of class k at x, 0
NewShape(k, x) ==
    CASE k = "poly" -> NewPoly(x, 0, Triangle)
      [] k = "rect" -> NewRect(x, 0, RectSize, RectSize)
      [] k = "ellipse" -> NewEllipse(RectSize, RectSize)
      [] k = "image" -> NewImage(x, 0, RectSize, RectSize, "a.png")

\* shape 1 is of any class, painted in any way, moving to the right and
\* turning or not; shape 2 is the default rectangle; the page has set the
\* context's lineWidth and fillStyle
InitPainted ==
    /\ \E k \in Kinds : /\ kind = [sh \in Shapes |-> IF sh = 1 THEN k ELSE "rect"]
                        /\ geometry = [sh \in Shapes |->
                                NewShape(IF sh = 1 THEN k ELSE "rect", sh - 1)]
    /\ \E fill \in Fills, outline \in Outlines :
            paint = [sh \in Shapes |-> IF sh = 1 THEN NewPaint(fill, outline)
                                       ELSE NewPaint(Null, Null)]
    /\ \E vx \in Velocities, av \in Spins :
            physics = [sh \in Shapes |->
                IF sh = 1 THEN [NewObject(0, 0) EXCEPT !.velocity.x = vx,
                                                       !.angularVelocity = av]
                ELSE NewObject(sh - 1, 0)]
    /\ now = 0
    /\ ops = <<>>
    /\ \E set \in Settings :
            ctx = [NewContext EXCEPT !.lineWidth = set.lineWidth,
                                     !.fillStyle = set.fillStyle]

\* shape 1 is of any class, at rest, with the default colours
InitShaped ==
    /\ \E k \in Kinds : /\ kind = [sh \in Shapes |-> IF sh = 1 THEN k ELSE "rect"]
                        /\ geometry = [sh \in Shapes |->
                                NewShape(IF sh = 1 THEN k ELSE "rect", sh - 1)]
    /\ paint = [sh \in Shapes |-> NewPaint(Null, Null)]
    /\ physics = [sh \in Shapes |-> NewObject(sh - 1, 0)]

\* the anchors, sizes, rotations (degrees), velocities and angular rates of
\* the shapes hit tests are made on
Anchors == {<<0, 0>>, <<1, 2>>}
Rotations == {90 * k : k \in -1..3}
Drifts == {2 * k : k \in 0..MaxVel}
Turns == {-180, 0, 180, 720}
TurnUps == {0, 1440}

\* the private fields of a new shape of class k at x, y, wider than high
HitShape(k, x, y) ==
    CASE k = "poly" -> NewPoly(x, y, Triangle)
      [] k = "rect" -> NewRect(x, y, HitWidth, HitHeight)
      [] k = "ellipse" -> NewEllipse(HitWidth, HitHeight)

\* shape 1 is a polygon, a rectangle or an ellipse at one of the anchors,
\* turned, drifting to the right or not, and turning at some rate
InitTurned ==
    /\ \E k \in {"poly", "rect", "ellipse"}, a \in Anchors :
        /\ kind = [sh \in Shapes |-> IF sh = 1 THEN k ELSE "rect"]
        /\ geometry = [sh \in Shapes |->
                IF sh = 1 THEN HitShape(k, a[1], a[2])
                ELSE NewRect(sh - 1, 0, RectSize, RectSize)]
        /\ \E rot \in Rotations, vx \in Drifts, av \in Turns, aa \in TurnUps :
            physics = [sh \in Shapes |->
                IF sh = 1
                THEN [NewObject(a[1], a[2]) EXCEPT
                        !.rotation = rot, !.velocity.x = vx,
                        !.angularVelocity = av, !.angularAcceleration = aa]
                ELSE NewObject(sh - 1, 0)]
    /\ paint = [sh \in Shapes |-> NewPaint(Null, Null)]

\* the frame lists, frame times (ms) and patterns application code passes
FrameLists == {<<"f0", "f1">>, <<"f0", "f1", "f2">>}
Durations == {100, 200}
FrameTimes ==
    {[array |-> FALSE, of |-> d] : d \in Durations}
    \cup UNION {{[array |-> TRUE, of |-> q] : q \in [1..k -> Durations]} :
                    k \in 1..MaxPattern}
Patterns(frameURLs) ==
    UNION {{<<q>> : q \in [1..k -> 0..(Len(frameURLs) - 1)]} : k \in 1..MaxPattern}

\* ... and the numbers the constructor is handed as times and indices
AnyDurations == {-100, 0, 100}
AnyFrameTimes ==
    {[array |-> FALSE, of |-> d] : d \in AnyDurations}
    \cup UNION {{[array |-> TRUE, of |-> q] : q \in [1..k -> AnyDurations]} :
                    k \in 1..MaxPattern}
AnyPatterns(frameURLs) ==
    UNION {{<<q>> : q \in [1..k -> -1..Len(frameURLs)]} : k \in 1..MaxPattern}

\* shape 1 is a sprite constructed at time 0 from any times and any pattern
\* the constructor accepts
InitAnySprites ==
    /\ kind = [sh \in Shapes |-> IF sh = 1 THEN "frames" ELSE "rect"]
    /\ \E frameURLs \in FrameLists, frameTime \in AnyFrameTimes :
        \E pattern \in AnyPatterns(frameURLs) :
            /\ ~FramesThrows(frameURLs, frameTime, pattern)
            /\ geometry = [sh \in Shapes |->
                    IF sh = 1
                    THEN NewFrames(0, 0, RectSize, RectSize, frameURLs, frameTime, pattern, 0)
                    ELSE NewRect(sh - 1, 0, RectSize, RectSize)]
    /\ paint = [sh \in Shapes |-> NewPaint(Null, Null)]
    /\ physics = [sh \in Shapes |-> NewObject(sh - 1, 0)]

\* shape 1 is a sprite constructed at time 0, with a pattern (given) or
\* without one, as G allows
InitSprites(G) ==
    /\ kind = [sh \in Shapes |-> IF sh = 1 THEN "frames" ELSE "rect"]
    /\ \E frameURLs \in FrameLists, frameTime \in FrameTimes, given \in G :
        \E pattern \in IF given THEN Patterns(frameURLs) ELSE {Null} :
            /\ ~FramesThrows(frameURLs, frameTime, pattern)
            /\ geometry = [sh \in Shapes |->
                    IF sh = 1
                    THEN NewFrames(0, 0, RectSize, RectSize, frameURLs, frameTime, pattern, 0)
                    ELSE NewRect(sh - 1, 0, RectSize, RectSize)]
    /\ paint = [sh \in Shapes |-> NewPaint(Null, Null)]
    /\ physics = [sh \in Shapes |-> NewObject(sh - 1, 0)]

(***************************************************************************)
(* Hit testing                                                              *)
(***************************************************************************)
ShapeX(sh) == physics[sh].x
ShapeY(sh) == physics[sh].y
Rotation(sh) == physics[sh].rotation
Vertices(sh) == geometry[sh].vertices

\* this.#centroidX and this.#centroidY, as cached by the constructor or by
\* the vertices setter (the rotation in use makes the pivot cancel out below)
CentroidX(sh) == geometry[sh].centroidX
CentroidY(sh) == geometry[sh].centroidY

\* Math.sin and Math.cos of a whole number of quarter turns, in degrees
Quarter(deg) == (((deg % 360) + 360) % 360) \div 90
SinDeg(deg) == CASE Quarter(deg) = 0 /\ deg % 90 = 0 -> 0
                 [] Quarter(deg) = 1 /\ deg % 90 = 0 -> 1
                 [] Quarter(deg) = 2 /\ deg % 90 = 0 -> 0
                 [] Quarter(deg) = 3 /\ deg % 90 = 0 -> -1
CosDeg(deg) == SinDeg(deg + 90)

\* Math.sin(-rotation * PI / 180) and Math.cos(...) at the rotations in use
SinNeg(rot) == SinDeg(-rot)
CosNeg(rot) == CosDeg(-rot)

\* the vertex ring as __isPointInBounds rotates it about the cached centroid
XVert(sh) ==
    [i \in 1..Len(Vertices(sh)) |->
        CosNeg(Rotation(sh)) * (Vertices(sh)[i][1] + ShapeX(sh) - CentroidX(sh))
        - SinNeg(Rotation(sh)) * (Vertices(sh)[i][2] + ShapeY(sh) - CentroidY(sh))
        + CentroidX(sh)]
YVert(sh) ==
    [i \in 1..Len(Vertices(sh)) |->
        SinNeg(Rotation(sh)) * (Vertices(sh)[i][1] + ShapeX(sh) - CentroidX(sh))
        + CosNeg(Rotation(sh)) * (Vertices(sh)[i][2] + ShapeY(sh) - CentroidY(sh))
        + CentroidY(sh)]

\* x < (xj - xi) * (y - yi) / (yj - yi) + xi, for yj # yi, without dividing
LeftOfEdge(x, y, xi, yi, xj, yj) ==
    IF yj > yi
    THEN (x - xi) * (yj - yi) < (xj - xi) * (y - yi)
    ELSE (x - xi) * (yj - yi) > (xj - xi) * (y - yi)

Crosses_oneEnd(sh, i, j, x, y) ==
    /\ YVert(sh)[i] > y
    /\ LeftOfEdge(x, y, XVert(sh)[i], YVert(sh)[i], XVert(sh)[j], YVert(sh)[j])

\* one turn of the even-odd loop: does the edge from vertex j to vertex i flip
Crosses(sh, i, j, x, y) ==
    /\ (YVert(sh)[i] > y) # (YVert(sh)[j] > y)
    /\ LeftOfEdge(x, y, XVert(sh)[i], YVert(sh)[i], XVert(sh)[j], YVert(sh)[j])

\* CGLPoly.__isPointInBounds: the parity of the edges crossed
IsPointInBounds(sh, x, y) ==
    LET n == Len(Vertices(sh))
        prev(i) == IF i = 1 THEN n ELSE i - 1
    IN Cardinality({i \in 1..n : Crosses(sh, i, prev(i), x, y)}) % 2 = 1

\* revision 2.0.0: the vertex ring as __isPointInBounds positions it, at the
\* anchor and not rotated
XVert_2_0_0(sh) == [i \in 1..Len(Vertices(sh)) |-> Vertices(sh)[i][1] + ShapeX(sh)]
YVert_2_0_0(sh) == [i \in 1..Len(Vertices(sh)) |-> Vertices(sh)[i][2] + ShapeY(sh)]

\* revision 2.0.0: one turn of the same even-odd loop over that ring
Crosses_2_0_0(sh, i, j, x, y) ==
    /\ (YVert_2_0_0(sh)[i] > y) # (YVert_2_0_0(sh)[j] > y)
    /\ LeftOfEdge(x, y, XVert_2_0_0(sh)[i], YVert_2_0_0(sh)[i],
                        XVert_2_0_0(sh)[j], YVert_2_0_0(sh)[j])

\* revision 2.0.0, CGLPoly.__isPointInBounds: the check against the cached
\* bounds, then the parity of the edges crossed
IsPointInBounds_2_0_0(sh, x, y) ==
    LET n == Len(Vertices(sh))
        prev(i) == IF i = 1 THEN n ELSE i - 1
        box == geometry[sh].box
    IN IF x < box.minX \/ x > box.maxX \/ y < box.minY \/ y > box.maxY
       THEN FALSE
       ELSE Cardinality({i \in 1..n : Crosses_2_0_0(sh, i, prev(i), x, y)}) % 2 = 1

\* CGLEllipse.__isPointInBounds, with both sides of the comparison multiplied
\* by (horizLength * vertLength) ** 2 / 4 ... a division by a zero length
\* gives NaN or Infinity, which is not <= 1
EllipseIsPointInBounds(sh, x, y) ==
    LET hl == geometry[sh].horizLength[1]
        vl == geometry[sh].vertLength[1]
        sin == SinNeg(Rotation(sh))
        cos == CosNeg(Rotation(sh))
        dx == 2 * x - (2 * ShapeX(sh) + hl)
        dy == 2 * y - (2 * ShapeY(sh) + vl)
        u == cos * dx + sin * dy
        v == sin * dx - cos * dy
    IN IF hl = 0 \/ vl = 0 THEN FALSE
       ELSE u * u * vl * vl + v * v * hl * hl <= hl * hl * vl * vl

\* child.__isPointInBounds(x, y), as the class of the shape defines it
HitTest(sh, x, y) ==
    IF kind[sh] = "ellipse" THEN EllipseIsPointInBounds(sh, x, y)
    ELSE IsPointInBounds(sh, x, y)

(***************************************************************************)
(* append / prepend                                                         *)
(***************************************************************************)
IsAttached_truthy(obj) == canvasID[obj] # Null /\ canvasID[obj] # <<0>>

\* obj.canvasID !== null
IsAttached(obj) == canvasID[obj] # Null

\* the two guards of append() and prepend(): either throws a CGLException
AttachThrows(obj) == obj = NoObj \/ IsAttached(obj)

Append_unmarked(s, obj) ==
    IF AttachThrows(obj)
    THEN /\ op' = Call("append", s, obj, TRUE)
         /\ UNCHANGED <<children, canvasID>>
    ELSE /\ children' = [children EXCEPT ![s] = Append(@, obj)]
         /\ canvasID' = canvasID
         /\ op' = Call("append", s, obj, FALSE)

Append_(s, obj) ==
    IF AttachThrows(obj)
    THEN /\ op' = Call("append", s, obj, TRUE)
         /\ UNCHANGED <<children, canvasID>>
    ELSE /\ children' = [children EXCEPT ![s] = Append(@, obj)]
         /\ canvasID' = [canvasID EXCEPT ![obj] = <<sceneId[s]>>]
         /\ op' = Call("append", s, obj, FALSE)

Prepend_atEnd(s, obj) ==
    IF AttachThrows(obj)
    THEN /\ op' = Call("prepend", s, obj, TRUE)
         /\ UNCHANGED <<children, canvasID>>
    ELSE /\ children' = [children EXCEPT ![s] = Append(@, obj)]
         /\ canvasID' = [canvasID EXCEPT ![obj] = <<sceneId[s]>>]
         /\ op' = Call("prepend", s, obj, FALSE)

Prepend_(s, obj) ==
    IF AttachThrows(obj)
    THEN /\ op' = Call("prepend", s, obj, TRUE)
         /\ UNCHANGED <<children, canvasID>>
    ELSE /\ children' = [children EXCEPT ![s] = <<obj>> \o @]
         /\ canvasID' = [canvasID EXCEPT ![obj] = <<sceneId[s]>>]
         /\ op' = Call("prepend", s, obj, FALSE)

\* application code runs as a host task of its own: nothing else is on the stack
AppendTo(S) == \E s \in S, obj \in Shapes \cup {NoObj} :
    /\ Idle
    /\ Append_(s, obj)
    /\ invoked' = invoked
    /\ UNCHANGED <<sceneId, height, shapeVars, refreshTimeout, timers, mousePos,
                   cursorStyle, stack, stopCalled,
                   renderVars>>

PrependTo(S) == \E s \in S, obj \in Shapes \cup {NoObj} :
    /\ Idle
    /\ Prepend_(s, obj)
    /\ invoked' = invoked
    /\ UNCHANGED <<sceneId, height, shapeVars, refreshTimeout, timers, mousePos,
                   cursorStyle, stack, stopCalled,
                   renderVars>>

AppendCall == AppendTo(Scenes)
PrependCall == PrependTo(Scenes)

(***************************************************************************)
(* Public fields and subscriptions, set by application code                 *)
(***************************************************************************)
SetVisible == \E sh \in Shapes, b \in BOOLEAN :
    /\ Idle
    /\ b # isVisible[sh]
    /\ isVisible' = [isVisible EXCEPT ![sh] = b]
    /\ op' = Call("isVisible", 0, sh, FALSE)
    /\ invoked' = invoked
    /\ UNCHANGED <<sceneVars, ignoreClicks, eventListeners, refreshTimeout, timers,
                   mousePos, cursorStyle, stack, stopCalled, renderVars>>

SetIgnoreClicks == \E sh \in Shapes, b \in BOOLEAN :
    /\ Idle
    /\ b # ignoreClicks[sh]
    /\ ignoreClicks' = [ignoreClicks EXCEPT ![sh] = b]
    /\ op' = Call("ignoreClicks", 0, sh, FALSE)
    /\ invoked' = invoked
    /\ UNCHANGED <<sceneVars, isVisible, eventListeners, refreshTimeout, timers,
                   mousePos, cursorStyle, stack, stopCalled, renderVars>>

EventNames == {"click", "hover"}

\* the callback functions application code subscribes
Callbacks == {"f", "g"}

\* a call of on() or off() with an event name, returning in the same step
NamedCall(n, sh, eventName, t) == [Call(n, 0, sh, t) EXCEPT !.kind = eventName]

\* an eventName argument that is null or not a string
NotAString == "(null)"
\* a name no object has, and a name every object inherits from Object.prototype
OtherNames == {"drag", "toString"}
Inherited == {"toString"}

\* eventName in this.#eventListeners: own and inherited properties alike
NameIn(sh, eventName) == eventName \in DOMAIN eventListeners[sh] \cup Inherited

\* the two guards of on() and off(): either throws a CGLException
NameThrows(sh, eventName) == eventName = NotAString \/ ~NameIn(sh, eventName)

\* this.#eventListeners[eventName] is an array; the inherited property is a
\* function, which has no push and is not iterable
IsList(sh, eventName) == eventName \in DOMAIN eventListeners[sh]

\* CGLObject.on: the entry pushed carries the id that __cglRandomID() returned
On_(sh, eventName, callback, id) ==
    IF NameThrows(sh, eventName) \/ ~IsList(sh, eventName)
    THEN /\ op' = NamedCall("on", sh, eventName, TRUE)
         /\ UNCHANGED eventListeners
    ELSE /\ eventListeners' = [eventListeners EXCEPT ![sh][eventName] =
                                    Append(@, [callback |-> callback, id |-> id])]
         /\ op' = [NamedCall("on", sh, eventName, FALSE) EXCEPT !.id = <<id>>]

\* on() called on one of the shapes S with a name of K, a callback of Cbs and
\* Ids as the ids __cglRandomID() may return; a list holds at most cap entries
OnKinds(S, K, Cbs, Ids, cap) ==
    \E sh \in S, eventName \in K, callback \in Cbs, id \in Ids :
        /\ Idle
        /\ IsList(sh, eventName) => Len(eventListeners[sh][eventName]) < cap
        /\ On_(sh, eventName, callback, id)
        /\ invoked' = invoked
        /\ UNCHANGED <<sceneVars, isVisible, ignoreClicks, refreshTimeout, timers,
                       mousePos, cursorStyle, stack, stopCalled, renderVars>>

\* obj[key] = value, creating the own property when there is none
Assign(obj, key, value) ==
    [k \in DOMAIN obj \cup {key} |-> IF k = key THEN value ELSE obj[k]]

\* listeners.splice(i, 1)
Splice(listeners, i) ==
    SubSeq(listeners, 1, i - 1) \o SubSeq(listeners, i + 1, Len(listeners))

\* the loop of off(): every entry whose id is callbackID is spliced out, and
\* the index stays where it is after a splice
RECURSIVE OffLoop(_, _, _)
OffLoop(listeners, i, callbackID) ==
    IF i > Len(listeners) THEN listeners
    ELSE IF <<listeners[i].id>> = callbackID
         THEN OffLoop(Splice(listeners, i), i, callbackID)
         ELSE OffLoop(listeners, i + 1, callbackID)

\* CGLObject.off; callbackID is Null or <<id>>
Off_(sh, eventName, callbackID) ==
    IF NameThrows(sh, eventName)
    THEN /\ op' = [NamedCall("off", sh, eventName, TRUE) EXCEPT !.id = callbackID]
         /\ UNCHANGED eventListeners
    ELSE /\ op' = [NamedCall("off", sh, eventName, FALSE) EXCEPT !.id = callbackID]
         /\ IF callbackID = Null
            THEN eventListeners' = [eventListeners EXCEPT ![sh] = Assign(@, eventName, <<>>)]
            ELSE IF IsList(sh, eventName)
                 THEN eventListeners' = [eventListeners EXCEPT ![sh][eventName] =
                                            OffLoop(@, 1, callbackID)]
                 ELSE UNCHANGED eventListeners

OffKinds(S, K, Ids) ==
    \E sh \in S, eventName \in K, callbackID \in {Null} \cup {<<id>> : id \in Ids} :
        /\ Idle
        /\ Off_(sh, eventName, callbackID)
        /\ invoked' = invoked
        /\ UNCHANGED <<sceneVars, isVisible, ignoreClicks, refreshTimeout, timers,
                       mousePos, cursorStyle, stack, stopCalled, renderVars>>

OnCall == OnKinds(Shapes, EventNames, {"f"}, {0}, MaxListeners)
OnHover == OnKinds(Shapes, {"hover"}, {"f"}, {0}, MaxListeners)
OnClick == OnKinds(Shapes, {"click"}, {"f"}, {0}, MaxListeners)

(***************************************************************************)
(* Hit resolution                                                           *)
(***************************************************************************)
ChildrenAt_visibleOnly(s, x, y, excludeInvisible, excludeClickOmitted) ==
    SelectSeq(children[s], LAMBDA child :
        /\ ~(~isVisible[child] /\ excludeInvisible)
        /\ IsPointInBounds(child, x, y))

\* CGLCanvas.#childrenAt
ChildrenAt(s, x, y, excludeInvisible, excludeClickOmitted) ==
    SelectSeq(children[s], LAMBDA child :
        /\ ~((~isVisible[child] /\ excludeInvisible)
             \/ (ignoreClicks[child] /\ excludeClickOmitted))
        /\ IsPointInBounds(child, x, y))

Last_first(q) == q[1]

\* children[children.length-1]
Last(q) == q[Len(q)]

ToScene_initialHeight(s, px, py) == <<px, CanvasHeight - py>>

\* the listeners' conversion of offsetX / offsetY to the bottom-left frame
\* of scene s: {x: e.offsetX, y: this.#height - e.offsetY}
ToScene(s, px, py) == <<px, height[s] - py>>

\* the surface pixels the host reports: one row across the shapes, and a
\* pixel above them all
Pixels == {<<px, CanvasHeight - 1>> : px \in 0..MaxPx} \cup {<<0, 0>>}

\* the scenes whose surface receives input and whose loop is driven
LoopScenes == {1}

MouseMove == \E s \in LoopScenes, e \in Pixels :
    /\ Idle
    /\ mousePos' = [mousePos EXCEPT ![s] = ToScene(s, e[1], e[2])]
    /\ op' = [Call("mousemove", s, 0, FALSE) EXCEPT
                !.pos = ToScene(s, e[1], e[2]), !.arg = e]
    /\ invoked' = invoked
    /\ UNCHANGED <<sceneVars, shapeVars, refreshTimeout, timers, cursorStyle,
                   stack, stopCalled, renderVars>>

\* the heights application code gives a scene
Heights == {CanvasHeight, CanvasHeight + 1}

\* CGLCanvas: set height(h)
CanvasSetHeight == \E s \in LoopScenes, h \in Heights :
    /\ Idle
    /\ h # height[s]
    /\ height' = [height EXCEPT ![s] = h]
    /\ op' = Call("height", s, 0, FALSE)
    /\ UNCHANGED <<sceneId, children, canvasID, shapeVars, loopVars, renderVars>>

MouseLeave == \E s \in LoopScenes :
    /\ Idle
    /\ mousePos[s] # Null
    /\ mousePos' = [mousePos EXCEPT ![s] = Null]
    /\ op' = Call("mouseleave", s, 0, FALSE)
    /\ invoked' = invoked
    /\ UNCHANGED <<sceneVars, shapeVars, refreshTimeout, timers, cursorStyle,
                   stack, stopCalled, renderVars>>

\* a __handleEvent(eventName) in progress on shape sh: idx is the next
\* listener of the for-of loop; via is the handler that made the call; list
\* is Null while the array the loop iterates is the one the shape holds, and
\* <<that array>> once off(eventName) has put a new one in its place
Frame(eventName, s, sh, via, pos) ==
    [kind |-> eventName, scene |-> s, shape |-> sh, idx |-> 1, via |-> via,
     pos |-> pos, passes |-> 0, list |-> Null]

\* the "click" listener of the surface
Click == \E s \in LoopScenes, e \in Pixels :
    LET pos == ToScene(s, e[1], e[2])
        hits == ChildrenAt(s, pos[1], pos[2], TRUE, TRUE)
    IN /\ Idle
       /\ invoked' = invoked
       /\ IF hits = <<>>
          THEN /\ stack' = stack
               /\ op' = [Call("click", s, 0, FALSE) EXCEPT
                            !.pos = pos, !.arg = e, !.done = "click"]
          ELSE /\ stack' = <<Frame("click", s, Last(hits), "click", pos)>>
               /\ op' = [Call("click", s, Last(hits), FALSE) EXCEPT
                            !.pos = pos, !.arg = e]
       /\ UNCHANGED <<sceneVars, shapeVars, refreshTimeout, timers, mousePos,
                      cursorStyle, stopCalled, renderVars>>

(***************************************************************************)
(* CGLObject.__move                                                         *)
(***************************************************************************)
\* JavaScript's %: the result has the sign of the dividend
JsRem(a, n) ==
    LET m == IF n < 0 THEN -n ELSE n
    IN IF a >= 0 THEN a % m ELSE -((-a) % m)

\* rate * frameGap, frameGap being gap / 1e3 seconds; the rates and gaps in
\* use make the product a whole number
Times(rate, gap) == (rate * gap) \div 1000

Move_oldVelocity(b, t) ==
    LET gap == t - b.lastUpdate
    IN [b EXCEPT
          !.velocity = [x |-> b.velocity.x + Times(b.acceleration.x, gap),
                        y |-> b.velocity.y + Times(b.acceleration.y, gap)],
          !.x = b.x + Times(b.velocity.x, gap),
          !.y = b.y + Times(b.velocity.y, gap),
          !.angularVelocity = b.angularVelocity + Times(b.angularAcceleration, gap),
          !.rotation = JsRem(b.rotation + Times(b.angularVelocity, gap), 360),
          !.lastUpdate = t]

Move_keepStamp(b, t) ==
    LET gap == t - b.lastUpdate
        vx == b.velocity.x + Times(b.acceleration.x, gap)
        vy == b.velocity.y + Times(b.acceleration.y, gap)
        av == b.angularVelocity + Times(b.angularAcceleration, gap)
    IN [b EXCEPT
          !.velocity = [x |-> vx, y |-> vy],
          !.x = b.x + Times(vx, gap),
          !.y = b.y + Times(vy, gap),
          !.angularVelocity = av,
          !.rotation = JsRem(b.rotation + Times(av, gap), 360)]

Move_halfTurn(b, t) ==
    LET gap == t - b.lastUpdate
        vx == b.velocity.x + Times(b.acceleration.x, gap)
        vy == b.velocity.y + Times(b.acceleration.y, gap)
        av == b.angularVelocity + Times(b.angularAcceleration, gap)
    IN [b EXCEPT
          !.velocity = [x |-> vx, y |-> vy],
          !.x = b.x + Times(vx, gap),
          !.y = b.y + Times(vy, gap),
          !.angularVelocity = av,
          !.rotation = JsRem(b.rotation + Times(av, gap), 180),
          !.lastUpdate = t]

\* CGLObject.__move at Date.now() = t, on the fields b of one shape
Move(b, t) ==
    LET gap == t - b.lastUpdate
        vx == b.velocity.x + Times(b.acceleration.x, gap)
        vy == b.velocity.y + Times(b.acceleration.y, gap)
        av == b.angularVelocity + Times(b.angularAcceleration, gap)
    IN [b EXCEPT
          !.velocity = [x |-> vx, y |-> vy],
          !.x = b.x + Times(vx, gap),
          !.y = b.y + Times(vy, gap),
          !.angularVelocity = av,
          !.rotation = JsRem(b.rotation + Times(av, gap), 360),
          !.lastUpdate = t]

\* the host clock advances, by half a second at a time
Tick ==
    /\ Idle
    /\ now < 500 * MaxTicks
    /\ now' = now + 500
    /\ UNCHANGED <<sceneVars, shapeVars, loopVars, op, bodyVars, passVars>>

\* __move() called on one of the shapes S, as the child loop calls it
MoveCall(S) == \E sh \in S :
    /\ Idle
    /\ physics' = [physics EXCEPT ![sh] = Move(@, now)]
    /\ ops' = Append(ops, [op |-> "move", shape |-> sh, transform |-> ctx.transform])
    /\ op' = Call("move", 0, sh, FALSE)
    /\ UNCHANGED <<sceneVars, shapeVars, loopVars, bodyVars, now, ctx>>

\* the points hit tests are made at
Grid == (-MaxGrid..(MaxGrid + 3)) \X (-MaxGrid..(MaxGrid + 3))

\* __isPointInBounds(x, y) called on one of the shapes S, as #childrenAt
\* calls it; the result is op.arg
HitCall(S) == \E sh \in S, p \in Grid :
    /\ Idle
    /\ op' = [Call("isPointInBounds", 0, sh, FALSE) EXCEPT
                !.pos = p, !.arg = <<HitTest(sh, p[1], p[2])>>]
    /\ UNCHANGED <<sceneVars, shapeVars, loopVars, renderVars>>

\* ... on a polygon, in revision 2.0.0
HitCall_2_0_0(S) == \E sh \in S, p \in Grid :
    /\ Idle
    /\ kind[sh] # "ellipse"
    /\ op' = [Call("isPointInBounds@2.0.0", 0, sh, FALSE) EXCEPT
                !.pos = p, !.arg = <<IsPointInBounds_2_0_0(sh, p[1], p[2])>>]
    /\ UNCHANGED <<sceneVars, shapeVars, loopVars, renderVars>>

(***************************************************************************)
(* The setters of CGLPoly, CGLRect and CGLImage, on the private fields b of  *)
(* a shape at x, y. An argument is Null for null, else <<value>>. Each       *)
(* gives the fields the call leaves and whether it threw.                   *)
(***************************************************************************)
Returned(b) == [body |-> b, threw |-> FALSE]
Thrown(b) == [body |-> b, threw |-> TRUE]

\* what the identifier `vertices` in CGLPoly's setter resolves to: nothing
\* (Null, no such global in the page) or a global array of some length
GlobalVertices == {Null, <<0>>, <<3>>}

\* set vertices(v), `vertices` being the global g
PolySetVertices(b, x, y, v, g) ==
    IF v = Null THEN Thrown(b)
    ELSE IF g = Null THEN Thrown(b)
    ELSE IF g[1] < 3 THEN Thrown(b)
    ELSE IF \E i \in 1..Len(v[1]) : Len(v[1][i]) # 2 THEN Thrown(b)
    ELSE Returned([b EXCEPT !.vertices = v[1],
                            !.box = BoundingBox(x, y, v[1]),
                            !.centroidX = MeanX(v[1], x),
                            !.centroidY = MeanY(v[1], y)])

\* CGLRect: set width(w)
RectSetWidth(b, x, y, w, g) ==
    IF w = Null \/ w[1] < 0 THEN Thrown(b)
    ELSE LET sized == [b EXCEPT !.width = w]
         IN PolySetVertices(sized, x, y, <<RectVertices(w[1], sized.height[1])>>, g)

\* CGLRect: set height(h)
RectSetHeight(b, x, y, h, g) ==
    IF h = Null \/ h[1] < 0 THEN Thrown(b)
    ELSE LET sized == [b EXCEPT !.height = h]
         IN PolySetVertices(sized, x, y, <<RectVertices(sized.width[1], h[1])>>, g)

\* CGLImage: set width(w)
ImageSetWidth(b, x, y, w, g) ==
    LET r == RectSetWidth(b, x, y, w, g)
    IN IF r.threw THEN r ELSE Returned([r.body EXCEPT !.img.width = w[1]])

\* CGLImage: set height(h)
ImageSetHeight(b, x, y, h, g) ==
    LET r == RectSetHeight(b, x, y, h, g)
    IN IF r.threw THEN r ELSE Returned([r.body EXCEPT !.img.height = h[1]])

\* CGLImage: set src(s)
ImageSetSrc(b, s) ==
    IF s = Null \/ s = <<"">> THEN Thrown(b)
    ELSE Returned([b EXCEPT !.src = s, !.img.src = s[1]])

\* the values application code assigns
Widths == {Null, <<-2>>} \cup {<<2 * k>> : k \in 0..MaxWidth}
Sources == {Null, <<"">>, <<"b.png">>}
VertexLists ==
    {Null, <<Triangle>>, <<RectVertices(2, 2)>>,
     <<(<<<<0, 0>>, <<2, 2>>>>)>>, <<(<<<<0, 0>>, <<0>>, <<3, 0>>>>)>>}

\* a setter has run on shape sh with argument v
Assigned(name, sh, v, r) ==
    /\ geometry' = [geometry EXCEPT ![sh] = r.body]
    /\ op' = [Call(name, 0, sh, r.threw) EXCEPT !.arg = v]
    /\ UNCHANGED <<sceneVars, shapeVars, loopVars, kind, paint, now, passVars>>

SetWidth(S) == \E sh \in S, w \in Widths, g \in GlobalVertices :
    /\ Idle
    /\ kind[sh] \in {"rect", "image"}
    /\ Assigned("width", sh, w,
            IF kind[sh] = "image"
            THEN ImageSetWidth(geometry[sh], ShapeX(sh), ShapeY(sh), w, g)
            ELSE RectSetWidth(geometry[sh], ShapeX(sh), ShapeY(sh), w, g))

SetHeight(S) == \E sh \in S, h \in Widths, g \in GlobalVertices :
    /\ Idle
    /\ kind[sh] \in {"rect", "image"}
    /\ Assigned("height", sh, h,
            IF kind[sh] = "image"
            THEN ImageSetHeight(geometry[sh], ShapeX(sh), ShapeY(sh), h, g)
            ELSE RectSetHeight(geometry[sh], ShapeX(sh), ShapeY(sh), h, g))

SetVertices(S) == \E sh \in S, v \in VertexLists, g \in GlobalVertices :
    /\ Idle
    /\ kind[sh] \in {"poly", "rect", "image"}
    /\ Assigned("vertices", sh, v,
            PolySetVertices(geometry[sh], ShapeX(sh), ShapeY(sh), v, g))

SetSrc(S) == \E sh \in S, s \in Sources :
    /\ Idle
    /\ kind[sh] = "image"
    /\ Assigned("src", sh, s, ImageSetSrc(geometry[sh], s))

(***************************************************************************)
(* CGLFrames.__move                                                         *)
(***************************************************************************)
\* the while loop, on the sprite fields f: skip ahead to the frame the
\* interval falls in
RECURSIVE FrameLoop_strict(_, _, _)
FrameLoop_strict(f, interval, frameIndex) ==
    IF interval > f.frameTimes[frameIndex + 1]
    THEN FrameLoop_strict(f, interval - f.frameTimes[frameIndex + 1],
                          (frameIndex + 1) % Len(f.pattern))
    ELSE frameIndex

RECURSIVE FrameLoop(_, _, _)
FrameLoop(f, interval, frameIndex) ==
    IF interval >= f.frameTimes[frameIndex + 1]
    THEN FrameLoop(f, interval - f.frameTimes[frameIndex + 1],
                   (frameIndex + 1) % Len(f.pattern))
    ELSE frameIndex

\* this.#frameURLs[this.#pattern[this.#frameIndex]]: undefined (Null) when the
\* pattern entry is undefined
FrameURL(f) ==
    IF f.pattern[f.frameIndex + 1] = Null THEN Null
    \* ... or when the entry is no index of #frameURLs
    ELSE IF f.pattern[f.frameIndex + 1][1] \notin 0..(Len(f.frameURLs) - 1) THEN Null
    ELSE <<f.frameURLs[f.pattern[f.frameIndex + 1][1] + 1]>>

\* (Date.now() - this.#createdTimestamp) % this.#duration: <<a number>>, or
\* Null for NaN, the remainder by zero
FrameInterval(f, t) ==
    IF f.duration = 0 THEN Null
    ELSE <<JsRem(t - f.createdTimestamp, f.duration)>>

\* the while loop never exits: it goes once round the pattern and is back at
\* frame 0 with an interval that has not decreased, so that every test it has
\* passed it passes again
FrameLoopHangs(f, interval) ==
    /\ SumSeq(f.frameTimes) <= 0
    /\ \A k \in 1..Len(f.frameTimes) :
            interval - SumSeq(SubSeq(f.frameTimes, 1, k - 1)) >= f.frameTimes[k]

\* CGLFrames.__move at Date.now() = t never returns
FramesHangs(b, t) ==
    LET interval == FrameInterval(b.frames[1], t)
    IN interval # Null /\ FrameLoopHangs(b.frames[1], interval[1])

\* CGLFrames.__move at Date.now() = t up to super.__move(), on the private
\* fields b of the sprite
FramesMove(b, t) ==
    LET f == b.frames[1]
        interval == FrameInterval(f, t)
        \* NaN >= a number is false
        stepped == [f EXCEPT !.frameIndex =
                        IF interval = Null THEN 0 ELSE FrameLoop(f, interval[1], 0)]
    IN ImageSetSrc([b EXCEPT !.frames = <<stepped>>], FrameURL(stepped))

\* the host clock advances by 50 ms
FrameTick ==
    /\ Idle
    /\ now < 50 * MaxFrameTicks
    /\ now' = now + 50
    /\ UNCHANGED <<sceneVars, shapeVars, loopVars, op, bodyVars, passVars>>

\* __move() called on one of the sprites of S
FramesMoveCall(S) == \E sh \in S :
    /\ Idle
    /\ kind[sh] = "frames"
    /\ IF FramesHangs(geometry[sh], now)
       THEN /\ op' = [Call("move", 0, sh, FALSE) EXCEPT !.done = "never"]
            /\ UNCHANGED <<geometry, physics>>
       ELSE \E r \in {FramesMove(geometry[sh], now)} :
            /\ geometry' = [geometry EXCEPT ![sh] = r.body]
            /\ physics' = IF r.threw THEN physics
                          ELSE [physics EXCEPT ![sh] = Move(@, now)]
            /\ op' = Call("move", 0, sh, r.threw)
    /\ UNCHANGED <<sceneVars, shapeVars, loopVars, kind, paint, now, ctx, ops>>

(***************************************************************************)
(* The 2d context. Lengths handed to translate are in half pixels, since    *)
(* the shapes translate by half their size.                                 *)
(***************************************************************************)
\* the current transform m after translate, scale and rotate
Translate(m, tx, ty) ==
    [m EXCEPT !.e = @ + m.a * tx + m.c * ty,
              !.f = @ + m.b * tx + m.d * ty]

Scale(m, sx, sy) ==
    [m EXCEPT !.a = @ * sx, !.b = @ * sx, !.c = @ * sy, !.d = @ * sy]

Rotate(m, deg) ==
    [m EXCEPT !.a = m.a * CosDeg(deg) + m.c * SinDeg(deg),
              !.b = m.b * CosDeg(deg) + m.d * SinDeg(deg),
              !.c = m.c * CosDeg(deg) - m.a * SinDeg(deg),
              !.d = m.d * CosDeg(deg) - m.b * SinDeg(deg)]

CtxTranslate(c, tx, ty) == [c EXCEPT !.transform = Translate(@, tx, ty)]
CtxScale(c, sx, sy) == [c EXCEPT !.transform = Scale(@, sx, sy)]

\* ctx.rotate(deg * Math.PI / 180)
CtxRotate(c, deg) == [c EXCEPT !.transform = Rotate(@, deg)]

\* ctx.save() and ctx.restore(): the whole drawing state but the save stack
CtxSave(c) == [c EXCEPT !.saved = Append(@, [c EXCEPT !.saved = <<>>])]
CtxRestore(c) ==
    IF c.saved = <<>> THEN c
    ELSE [c.saved[Len(c.saved)] EXCEPT !.saved = SubSeq(c.saved, 1, Len(c.saved) - 1)]

(***************************************************************************)
(* __draw of each class, on the state of a pass: st.physics, the fields of  *)
(* the shapes, and st.canvas, the context (ctx) with the calls made so far  *)
(* (ops).                                                                   *)
(***************************************************************************)
\* a call made on shape sh or, for its sake, on the context
Issue(canvas, name, sh) ==
    [canvas EXCEPT !.ops = Append(@, [op |-> name, shape |-> sh,
                                      transform |-> canvas.ctx.transform])]
Log(st, name, sh) == [st EXCEPT !.canvas = Issue(@, name, sh)]

\* CGLPoly.__draw: the path's vertices, the ring turned about the cached
\* centroid, in the frame #draw has translated to the shape's x, y
DrawXVert(sh) ==
    [i \in 1..Len(Vertices(sh)) |->
        CosNeg(Rotation(sh)) * (Vertices(sh)[i][1] - CentroidX(sh))
        - SinNeg(Rotation(sh)) * (Vertices(sh)[i][2] - CentroidY(sh))
        + CentroidX(sh)]
DrawYVert(sh) ==
    [i \in 1..Len(Vertices(sh)) |->
        SinNeg(Rotation(sh)) * (Vertices(sh)[i][1] - CentroidX(sh))
        + CosNeg(Rotation(sh)) * (Vertices(sh)[i][2] - CentroidY(sh))
        + CentroidY(sh)]

\* the same vertices on the surface (bottom-left frame): #draw's
\* ctx.translate(offsetX, offsetY) is in force when the path is built
SurfaceXVert(sh) == [i \in 1..Len(Vertices(sh)) |-> ShapeX(sh) + DrawXVert(sh)[i]]
SurfaceYVert(sh) == [i \in 1..Len(Vertices(sh)) |-> ShapeY(sh) + DrawYVert(sh)[i]]

\* CGLPoly.__draw, which CGLRect inherits
PolyDraw(st, sh) ==
    LET filled == IF paint[sh].fillColor # "transparent" THEN Log(st, "fill", sh) ELSE st
        turned == [filled EXCEPT !.canvas.ctx =
                    CtxTranslate(
                      CtxRotate(
                        CtxTranslate(CtxSave(@), 2 * CentroidX(sh), 2 * CentroidY(sh)),
                        -st.physics[sh].rotation),
                      -2 * CentroidX(sh), -2 * CentroidY(sh))]
        wide == [turned EXCEPT !.canvas.ctx.lineWidth = @ * 2]
        stroked == IF paint[sh].outlineColor # "transparent"
                   THEN Log(wide, "stroke", sh) ELSE wide
    IN [stroked EXCEPT !.canvas.ctx = CtxRestore(@)]

\* CGLEllipse.__draw
EllipseDraw(st, sh) ==
    LET hl == geometry[sh].horizLength[1]
        vl == geometry[sh].vertLength[1]
        turned == [st EXCEPT !.canvas.ctx =
                    CtxTranslate(
                      CtxRotate(CtxTranslate(CtxSave(@), hl, vl),
                                -st.physics[sh].rotation),
                      -hl, -vl)]
        outlined == Log(turned, "stroke", sh)
        back == [outlined EXCEPT !.canvas.ctx = CtxRestore(@)]
        filled == IF paint[sh].fillColor # "transparent" THEN Log(back, "fill", sh) ELSE back
    IN IF paint[sh].outlineColor # "transparent" THEN Log(filled, "stroke", sh) ELSE filled

\* CGLImage.__draw
ImageDraw_noUnrotate(st, sh) ==
    LET w == geometry[sh].width[1]
        h == geometry[sh].height[1]
        turned == [st EXCEPT !.canvas.ctx =
                    CtxScale(CtxRotate(CtxTranslate(@, w, h),
                                       -st.physics[sh].rotation - 180), -1, 1)]
        drawn == Log(turned, "drawImage", sh)
    IN [drawn EXCEPT !.canvas.ctx = CtxTranslate(CtxScale(@, -1, 1), -w, -h)]

ImageDraw(st, sh) ==
    LET w == geometry[sh].width[1]
        h == geometry[sh].height[1]
        turned == [st EXCEPT !.canvas.ctx =
                    CtxScale(CtxRotate(CtxTranslate(@, w, h),
                                       -st.physics[sh].rotation - 180), -1, 1)]
        drawn == Log(turned, "drawImage", sh)
    IN [drawn EXCEPT !.canvas.ctx =
            CtxTranslate(CtxRotate(CtxScale(@, -1, 1), drawn.physics[sh].rotation - 180),
                         -w, -h)]

\* child.__draw(this.#ctx)
ShapeDraw(st, sh) ==
    LET entered == Log(st, "draw", sh)
        left == CASE kind[sh] \in {"poly", "rect"} -> PolyDraw(entered, sh)
                  [] kind[sh] = "ellipse" -> EllipseDraw(entered, sh)
                  [] kind[sh] = "image" -> ImageDraw(entered, sh)
    IN Log(left, "drawn", sh)

(***************************************************************************)
(* CGLCanvas.#draw: the child loop                                          *)
(***************************************************************************)
\* ctx.fillStyle = child.fillColor, and so on
Styled(c, child) ==
    [c EXCEPT !.fillStyle = paint[child].fillColor,
              !.strokeStyle = paint[child].outlineColor,
              !.lineWidth = paint[child].outlineThickness]

ChildStep_all(st, child, t) ==
    LET offsetX == st.physics[child].x
        offsetY == st.physics[child].y
        placed == [st EXCEPT !.canvas.ctx =
                    CtxTranslate(Styled(@, child), 2 * offsetX, 2 * offsetY)]
        moved == [Log(placed, "move", child) EXCEPT !.physics[child] = Move(@, t)]
        drawn == ShapeDraw(moved, child)
    IN [drawn EXCEPT !.canvas.ctx = CtxTranslate(@, -2 * offsetX, -2 * offsetY)]

\* one turn of "for (let child of this.#children)"
ChildStep(st, child, t) ==
    IF ~isVisible[child] THEN st
    ELSE LET offsetX == st.physics[child].x
             offsetY == st.physics[child].y
             placed == [st EXCEPT !.canvas.ctx =
                         CtxTranslate(Styled(@, child), 2 * offsetX, 2 * offsetY)]
             moved == [Log(placed, "move", child) EXCEPT !.physics[child] = Move(@, t)]
             drawn == ShapeDraw(moved, child)
         IN [drawn EXCEPT !.canvas.ctx = CtxTranslate(@, -2 * offsetX, -2 * offsetY)]

\* the loop over the children; s is the state the turns before have left,
\* worked out once
RECURSIVE ChildLoop(_, _, _)
ChildLoop(st, list, t) ==
    IF list = <<>> THEN st
    ELSE CHOOSE r \in {ChildLoop(ChildStep(s, Head(list), t), Tail(list), t) :
                            s \in {st}} : TRUE

\* #draw from its start to "call hover events": clear, flip to the bottom-
\* left frame, the child loop, unflip, put lineWidth and fillStyle back
Paint(s) ==
    LET st == [physics |-> physics, canvas |-> [ctx |-> ctx, ops |-> ops]]
        opts == [lineWidth |-> ctx.lineWidth, fillStyle |-> ctx.fillStyle]
        cleared == Log(st, "clearRect", 0)
        flipped == [cleared EXCEPT !.canvas.ctx =
                        CtxScale(CtxTranslate(@, 0, 2 * height[s]), 1, -1)]
        looped == ChildLoop(flipped, children[s], now)
        unflipped == [looped EXCEPT !.canvas.ctx =
                        CtxTranslate(CtxScale(@, 1, -1), 0, -2 * height[s])]
    IN [unflipped EXCEPT !.canvas.ctx.lineWidth = opts.lineWidth,
                         !.canvas.ctx.fillStyle = opts.fillStyle]

(***************************************************************************)
(* The render loop                                                          *)
(***************************************************************************)
IsRunning_never(s) == FALSE

\* CGLCanvas.isRunning
IsRunning(s) == refreshTimeout[s] # Null

\* the ids setTimeout can return now: the host never hands out an id that is
\* pending or that another scene still holds
FreeTimers(s, pending) ==
    {i \in 1..MaxTimers :
        /\ \A t \in pending : t.id # i
        /\ \A o \in Scenes \ {s} : refreshTimeout[o] # <<i>>}

\* this.#refreshTimeout = setTimeout(() => this.#draw(), this.frameTime)
SetTimeout(s, pending) ==
    /\ FreeTimers(s, pending) # {}
    /\ refreshTimeout' = [refreshTimeout EXCEPT ![s] = <<MinOf(FreeTimers(s, pending))>>]
    /\ timers' = pending \cup {[id |-> MinOf(FreeTimers(s, pending)), scene |-> s]}

\* n more render passes have completed while the innermost dispatch runs
AddPasses(stk, n) ==
    IF stk = <<>> THEN stk ELSE [stk EXCEPT ![Len(stk)].passes = @ + n]

Draw_keepCursor(s, below, pending, via, call) ==
    LET p == mousePos[s]
    IN \E painted \in {Paint(s)} :
       /\ physics' = painted.physics
       /\ ctx' = painted.canvas.ctx
       /\ ops' = painted.canvas.ops
       /\ IF p = Null \/ ChildrenAt(s, p[1], p[2], TRUE, TRUE)' = <<>>
          THEN /\ cursorStyle' = cursorStyle
               /\ SetTimeout(s, pending)
               /\ stack' = AddPasses(below, 1)
               /\ op' = [call |-> call, scene |-> s, shape |-> 0, pos |-> p,
                         threw |-> FALSE, kind |-> "", id |-> <<>>, arg |-> <<>>, done |-> via,
                         passes |-> 1]
          ELSE /\ Len(below) < MaxDepth
               /\ stack' = Append(below,
                    Frame("hover", s, Last(ChildrenAt(s, p[1], p[2], TRUE, TRUE)'), via, p))
               /\ timers' = pending
               /\ UNCHANGED <<cursorStyle, refreshTimeout>>
               /\ op' = [call |-> call, scene |-> s,
                         shape |-> Last(ChildrenAt(s, p[1], p[2], TRUE, TRUE)'),
                         pos |-> p, threw |-> FALSE, kind |-> "", id |-> <<>>, arg |-> <<>>,
                         done |-> "", passes |-> 0]

Draw_resetCursor(s, below, pending, via, call) ==
    LET p == mousePos[s]
    IN \E painted \in {Paint(s)} :
       /\ physics' = painted.physics
       /\ ctx' = painted.canvas.ctx
       /\ ops' = painted.canvas.ops
       /\ IF p = Null \/ ChildrenAt(s, p[1], p[2], TRUE, TRUE)' = <<>>
          THEN /\ cursorStyle' = [cursorStyle EXCEPT ![s] = ""]
               /\ SetTimeout(s, pending)
               /\ stack' = AddPasses(below, 1)
               /\ op' = [call |-> call, scene |-> s, shape |-> 0, pos |-> p,
                         threw |-> FALSE, kind |-> "", id |-> <<>>, arg |-> <<>>, done |-> via,
                         passes |-> 1]
          ELSE /\ Len(below) < MaxDepth
               /\ stack' = Append(below,
                    Frame("hover", s, Last(ChildrenAt(s, p[1], p[2], TRUE, TRUE)'), via, p))
               /\ timers' = pending
               /\ UNCHANGED <<cursorStyle, refreshTimeout>>
               /\ op' = [call |-> call, scene |-> s,
                         shape |-> Last(ChildrenAt(s, p[1], p[2], TRUE, TRUE)'),
                         pos |-> p, threw |-> FALSE, kind |-> "", id |-> <<>>, arg |-> <<>>,
                         done |-> "", passes |-> 0]

\* CGLCanvas.#draw up to its first callback: the child loop, then hover
\* resolution against the shapes as the loop left them. With no shape under
\* the pointer the pass runs to its end in this step, otherwise
\* __handleEvent("hover") is entered.
Draw(s, below, pending, via, call) ==
    LET p == mousePos[s]
    IN \E painted \in {Paint(s)} :
       /\ physics' = painted.physics
       /\ ctx' = painted.canvas.ctx
       /\ ops' = painted.canvas.ops
       /\ IF p = Null \/ ChildrenAt(s, p[1], p[2], TRUE, TRUE)' = <<>>
          THEN /\ cursorStyle' = IF p = Null THEN cursorStyle
                                 ELSE [cursorStyle EXCEPT ![s] = ""]
               /\ SetTimeout(s, pending)
               /\ stack' = AddPasses(below, 1)
               /\ op' = [call |-> call, scene |-> s, shape |-> 0, pos |-> p,
                         threw |-> FALSE, kind |-> "", id |-> <<>>, arg |-> <<>>, done |-> via,
                         passes |-> 1]
          ELSE /\ Len(below) < MaxDepth
               /\ stack' = Append(below,
                    Frame("hover", s, Last(ChildrenAt(s, p[1], p[2], TRUE, TRUE)'), via, p))
               /\ timers' = pending
               /\ UNCHANGED <<cursorStyle, refreshTimeout>>
               /\ op' = [call |-> call, scene |-> s,
                         shape |-> Last(ChildrenAt(s, p[1], p[2], TRUE, TRUE)'),
                         pos |-> p, threw |-> FALSE, kind |-> "", id |-> <<>>, arg |-> <<>>,
                         done |-> "", passes |-> 0]

\* CGLCanvas.start, called with `below` on the stack
Start_(s, below) ==
    /\ stopCalled' = [stopCalled EXCEPT ![s] = FALSE]
    /\ IF IsRunning(s)
       THEN /\ stack' = below
            /\ op' = Call("start", s, 0, FALSE)
            /\ UNCHANGED <<cursorStyle, refreshTimeout, timers, passVars>>
       ELSE Draw(s, below, timers, "start", "start")

\* CGLCanvas.stop, called with `below` on the stack
Stop_(s, below) ==
    /\ stopCalled' = [stopCalled EXCEPT ![s] = TRUE]
    /\ stack' = below
    /\ op' = Call("stop", s, 0, FALSE)
    /\ cursorStyle' = cursorStyle
    /\ IF refreshTimeout[s] = Null
       THEN UNCHANGED <<refreshTimeout, timers, passVars>>
       ELSE /\ timers' = {t \in timers : <<t.id>> # refreshTimeout[s]}
            /\ refreshTimeout' = [refreshTimeout EXCEPT ![s] = Null]
            /\ UNCHANGED passVars

StartCall == \E s \in LoopScenes :
    /\ Idle
    /\ UNCHANGED <<sceneVars, shapeVars, mousePos, bodyVars, now>>
    /\ Start_(s, <<>>)
    /\ invoked' = invoked

StopCall == \E s \in LoopScenes :
    /\ Idle
    /\ Stop_(s, <<>>)
    /\ invoked' = invoked
    /\ UNCHANGED <<sceneVars, shapeVars, mousePos, bodyVars, now>>

\* the host runs a pending timer's callback: () => this.#draw()
TimerFire == \E t \in timers :
    /\ Idle
    /\ UNCHANGED <<sceneVars, shapeVars, mousePos, stopCalled, bodyVars, now>>
    /\ Draw(t.scene, <<>>, timers \ {t}, "timer", "timer")
    /\ invoked' = invoked

(***************************************************************************)
(* CGLObject.__handleEvent: the for-of loop over the listeners of a kind    *)
(***************************************************************************)
Top == stack[Len(stack)]
Listeners_click(f) == eventListeners[f.shape]["click"]

\* the array the for-of loop of f iterates: this.#eventListeners[eventName]
\* as it was when the loop began
Listeners(f) == IF f.list = Null THEN eventListeners[f.shape][f.kind] ELSE f.list[1]
Advance(stk) == [stk EXCEPT ![Len(stk)].idx = @ + 1]
Pop(stk) == SubSeq(stk, 1, Len(stk) - 1)

\* event.callback(...args) is entered
Enter ==
    /\ stack # <<>>
    /\ Top.idx <= Len(Listeners(Top))
    /\ invoked' = Append(invoked, [kind |-> Top.kind, shape |-> Top.shape,
                                   callback |-> Listeners(Top)[Top.idx].callback,
                                   id |-> Listeners(Top)[Top.idx].id])

\* ... of a callback that leaves the scene's list and the subscriptions alone
Invoke == Enter /\ UNCHANGED <<sceneVars, shapeVars, mousePos, bodyVars, now>>

\* a callback that leaves the scene alone
CallbackPlain ==
    /\ Invoke
    /\ stack' = Advance(stack)
    /\ op' = Call("callback", Top.scene, Top.shape, FALSE)
    /\ UNCHANGED <<refreshTimeout, timers, cursorStyle, stopCalled, passVars>>

\* a callback that appends or prepends, to the scene of the dispatch, a shape
\* that is not attached yet
CallbackAttach == \E obj \in Shapes, front \in BOOLEAN :
    /\ Enter
    /\ Top.scene # 0
    /\ ~AttachThrows(obj)
    /\ IF front THEN Prepend_(Top.scene, obj) ELSE Append_(Top.scene, obj)
    /\ stack' = Advance(stack)
    /\ ops' = Append(ops, [op |-> IF front THEN "prepend" ELSE "append",
                           shape |-> obj, transform |-> ctx.transform])
    /\ UNCHANGED <<sceneId, height, shapeVars, refreshTimeout, timers, mousePos,
                   cursorStyle, stopCalled, bodyVars, now, physics, ctx>>

\* the loops in progress keep the array that off(eventName) replaces
Detach(stk, sh, eventName) ==
    [i \in 1..Len(stk) |->
        IF stk[i].shape = sh /\ stk[i].kind = eventName /\ stk[i].list = Null
        THEN [stk[i] EXCEPT !.list = <<eventListeners[sh][eventName]>>]
        ELSE stk[i]]

\* a callback that calls off() on its shape with the kind of the dispatch:
\* by id, or with no id
CallbackOff == \E callbackID \in {Null} \cup {<<id>> : id \in IdPool} :
    /\ Enter
    /\ Off_(Top.shape, Top.kind, callbackID)
    /\ stack' = IF callbackID = Null
                THEN Detach(Advance(stack), Top.shape, Top.kind)
                ELSE Advance(stack)
    /\ UNCHANGED <<sceneVars, isVisible, ignoreClicks, refreshTimeout, timers,
                   mousePos, cursorStyle, stopCalled, renderVars>>

\* a callback that throws: nothing in __handleEvent, #draw or the listeners
\* catches, so every call on the stack is left and the host task ends there
CallbackThrow ==
    /\ Invoke
    /\ stack' = <<>>
    /\ op' = Call("callback", Top.scene, Top.shape, TRUE)
    /\ UNCHANGED <<refreshTimeout, timers, cursorStyle, stopCalled, passVars>>

\* a callback that calls start() on its scene
CallbackStart ==
    /\ stack # <<>>
    /\ \E s \in {Top.scene} : Invoke /\ Start_(s, Advance(stack))

\* a callback that calls stop() on its scene
CallbackStop == Invoke /\ Stop_(Top.scene, Advance(stack))

DrawReturn_noCursor ==
    /\ stack # <<>>
    /\ Top.kind = "hover" /\ Top.via \in {"start", "timer"}
    /\ Top.idx > Len(Listeners(Top))
    /\ cursorStyle' = cursorStyle
    /\ SetTimeout(Top.scene, timers)
    /\ stack' = AddPasses(Pop(stack), Top.passes + 1)
    /\ op' = [call |-> "return", scene |-> Top.scene, shape |-> Top.shape,
              pos |-> Top.pos, threw |-> FALSE, kind |-> "", id |-> <<>>, arg |-> <<>>, done |-> Top.via,
              passes |-> Top.passes + 1]
    /\ UNCHANGED <<sceneVars, shapeVars, mousePos, invoked, stopCalled, renderVars>>

DrawReturn_retarget ==
    /\ stack # <<>>
    /\ Top.kind = "hover" /\ Top.via \in {"start", "timer"}
    /\ Top.idx > Len(Listeners(Top))
    /\ cursorStyle' = [cursorStyle EXCEPT ![Top.scene] =
            ShapeCursor(Last(ChildrenAt(Top.scene, Top.pos[1], Top.pos[2], TRUE, TRUE)))]
    /\ SetTimeout(Top.scene, timers)
    /\ stack' = AddPasses(Pop(stack), Top.passes + 1)
    /\ op' = [call |-> "return", scene |-> Top.scene,
              shape |-> Last(ChildrenAt(Top.scene, Top.pos[1], Top.pos[2], TRUE, TRUE)),
              pos |-> Top.pos, threw |-> FALSE, kind |-> "", id |-> <<>>, arg |-> <<>>, done |-> Top.via,
              passes |-> Top.passes + 1]
    /\ UNCHANGED <<sceneVars, shapeVars, mousePos, invoked, stopCalled, renderVars>>

\* __handleEvent("hover") has returned into #draw: the cursor is updated and
\* the next pass is queued
DrawReturn ==
    /\ stack # <<>>
    /\ Top.kind = "hover" /\ Top.via \in {"start", "timer"}
    /\ Top.idx > Len(Listeners(Top))
    /\ cursorStyle' = [cursorStyle EXCEPT ![Top.scene] = ShapeCursor(Top.shape)]
    /\ SetTimeout(Top.scene, timers)
    /\ stack' = AddPasses(Pop(stack), Top.passes + 1)
    /\ op' = [call |-> "return", scene |-> Top.scene, shape |-> Top.shape,
              pos |-> Top.pos, threw |-> FALSE, kind |-> "", id |-> <<>>, arg |-> <<>>, done |-> Top.via,
              passes |-> Top.passes + 1]
    /\ UNCHANGED <<sceneVars, shapeVars, mousePos, invoked, stopCalled, renderVars>>

\* __handleEvent("click") has returned into the click listener
ClickReturn ==
    /\ stack # <<>>
    /\ Top.kind = "click" /\ Top.via = "click"
    /\ Top.idx > Len(Listeners(Top))
    /\ stack' = AddPasses(Pop(stack), Top.passes)
    /\ op' = [call |-> "return", scene |-> Top.scene, shape |-> Top.shape,
              pos |-> Top.pos, threw |-> FALSE, kind |-> "", id |-> <<>>, arg |-> <<>>, done |-> "click",
              passes |-> Top.passes]
    /\ UNCHANGED <<sceneVars, shapeVars, refreshTimeout, timers, mousePos,
                   cursorStyle, invoked, stopCalled, renderVars>>

\* __handleEvent(eventName) called on one of the shapes S with a name of K,
\* as the scene calls it
HandleEventCall(S, K) == \E sh \in S, eventName \in K :
    /\ Idle
    /\ invoked' = invoked
    /\ IF ~NameIn(sh, eventName)
       THEN /\ stack' = stack
            /\ op' = [NamedCall("handleEvent", sh, eventName, FALSE)
                        EXCEPT !.done = "handleEvent"]
       ELSE IF ~IsList(sh, eventName)
            THEN /\ stack' = stack
                 /\ op' = NamedCall("handleEvent", sh, eventName, TRUE)
            ELSE /\ stack' = <<Frame(eventName, 0, sh, "handleEvent", NoPos)>>
                 /\ op' = NamedCall("handleEvent", sh, eventName, FALSE)
    /\ UNCHANGED <<sceneVars, shapeVars, refreshTimeout, timers, mousePos,
                   cursorStyle, stopCalled, renderVars>>

\* the for-of loop of such a call has run out and __handleEvent returns
HandleEventReturn ==
    /\ stack # <<>>
    /\ Top.via = "handleEvent"
    /\ Top.idx > Len(Listeners(Top))
    /\ stack' = Pop(stack)
    /\ op' = [NamedCall("return", Top.shape, Top.kind, FALSE)
                EXCEPT !.done = "handleEvent"]
    /\ UNCHANGED <<sceneVars, shapeVars, refreshTimeout, timers, mousePos,
                   cursorStyle, invoked, stopCalled, renderVars>>

\* the host task has run to completion and control is back in the event
\* loop: the record of what the task did is dropped
TaskEnd ==
    /\ stack = <<>>
    /\ op # NoOp
    \* a call that never returns never ends its task
    /\ op.done # "never"
    /\ op' = NoOp
    /\ invoked' = <<>>
    /\ ops' = <<>>
    /\ UNCHANGED <<sceneVars, shapeVars, refreshTimeout, timers, mousePos,
                   cursorStyle, stack, stopCalled, bodyVars, now, physics, ctx>>

(***************************************************************************)
(* Specifications                                                           *)
(***************************************************************************)
\* attachment over all scenes
Next == AppendCall \/ PrependCall \/ TaskEnd

Spec == Init /\ [][Next]_vars

\* one scene's surface and loop, with callbacks that leave the scene alone
NextDispatch ==
    \/ AppendTo(LoopScenes) \/ PrependTo(LoopScenes)
    \/ SetVisible \/ SetIgnoreClicks \/ OnCall
    \/ MouseMove \/ MouseLeave \/ Click
    \/ StartCall \/ TimerFire
    \/ CallbackPlain \/ DrawReturn \/ ClickReturn \/ TaskEnd

\* the scene ids play no part in dispatch or in the loop: one choice of them
InitLoop == Init /\ sceneId = [s \in Scenes |-> 0]

\* one scene's click listener
NextClick ==
    \/ AppendTo(LoopScenes) \/ PrependTo(LoopScenes)
    \/ SetVisible \/ SetIgnoreClicks \/ OnClick
    \/ Click \/ CallbackPlain \/ ClickReturn \/ TaskEnd

SpecClick == InitLoop /\ [][NextClick]_vars

SpecDispatch == InitLoop /\ [][NextDispatch]_vars

\* one scene's loop, with hover callbacks that may call start() and stop();
\* a click callback runs between passes, as StartCall and StopCall do
NextLoop ==
    \/ AppendTo(LoopScenes) \/ OnHover
    \/ MouseMove \/ MouseLeave
    \/ StartCall \/ StopCall \/ TimerFire
    \/ CallbackPlain \/ CallbackStart \/ CallbackStop \/ DrawReturn \/ TaskEnd

SpecLoop == InitLoop /\ [][NextLoop]_vars

\* shapes attached at either end of one scene, shown and hidden, and the
\* render passes over them
NextOrder ==
    \/ AppendTo(LoopScenes) \/ PrependTo(LoopScenes) \/ SetVisible
    \/ StartCall \/ StopCall \/ TimerFire \/ TaskEnd

SpecOrder == InitLoop /\ [][NextOrder]_vars

\* clicks and pointer moves on one scene's surface, resized at times
NextPointer ==
    \/ AppendTo(LoopScenes) \/ CanvasSetHeight
    \/ MouseMove \/ MouseLeave \/ Click \/ ClickReturn \/ TaskEnd

SpecPointer == InitLoop /\ [][NextPointer]_vars

\* one scene's passes and clicks, with callbacks that attach shapes to it
NextAttach ==
    \/ AppendTo(LoopScenes) \/ OnCall \/ MouseMove \/ Click
    \/ StartCall \/ TimerFire
    \/ CallbackPlain \/ CallbackAttach \/ DrawReturn \/ ClickReturn \/ TaskEnd

SpecAttach == InitLoop /\ [][NextAttach]_vars

\* one scene's loop with hover callbacks that return or throw
NextAbort ==
    \/ AppendTo(LoopScenes) \/ OnHover \/ MouseMove \/ MouseLeave
    \/ StartCall \/ StopCall \/ TimerFire
    \/ CallbackPlain \/ CallbackThrow \/ DrawReturn \/ TaskEnd

SpecAbort == InitLoop /\ [][NextAbort]_vars

\* integration steps of a shape in motion, at any times
NextMove == Tick \/ MoveCall(Movers) \/ TaskEnd

InitMove == InitCore /\ sceneId = [s \in Scenes |-> 0] /\ InitMoving /\ InitHost

SpecMove == InitMove /\ [][NextMove]_vars

\* render passes over shapes of every class, with the pointer outside
NextPaint ==
    \/ AppendTo(LoopScenes) \/ SetVisible \/ Tick
    \/ StartCall \/ StopCall \/ TimerFire \/ TaskEnd

InitPaint == InitCore /\ sceneId = [s \in Scenes |-> 0] /\ InitPainted

SpecPaint == InitPaint /\ [][NextPaint]_vars

\* render passes, at any times, over a shape in motion that is attached,
\* hidden and shown at any times
SpecElapsed == InitMove /\ [][NextPaint]_vars

\* the shapes application code assigns to
Resized == {1}

\* assignments to the size, outline and source of one shape of any class
NextSetters ==
    \/ SetWidth(Resized) \/ SetHeight(Resized)
    \/ SetVertices(Resized) \/ SetSrc(Resized) \/ TaskEnd

InitSetters == InitCore /\ sceneId = [s \in Scenes |-> 0] /\ InitShaped /\ InitHost

SpecSetters == InitSetters /\ [][NextSetters]_vars

\* hit tests and integration steps of one shape, in both revisions
NextHit ==
    \/ Tick \/ MoveCall(Movers) \/ HitCall(Movers) \/ HitCall_2_0_0(Movers)
    \/ TaskEnd

InitHit == InitCore /\ sceneId = [s \in Scenes |-> 0] /\ InitTurned /\ InitHost

SpecHit == InitHit /\ [][NextHit]_vars

\* integration steps of a sprite, at any times
NextFrames == FrameTick \/ FramesMoveCall(Movers) \/ TaskEnd

InitFrames ==
    InitCore /\ sceneId = [s \in Scenes |-> 0] /\ InitSprites(BOOLEAN) /\ InitHost

SpecFrames == InitFrames /\ [][NextFrames]_vars

\* ... of a sprite constructed without a pattern
InitDefaultFrames ==
    InitCore /\ sceneId = [s \in Scenes |-> 0] /\ InitSprites({FALSE}) /\ InitHost

SpecDefaultFrames == InitDefaultFrames /\ [][NextFrames]_vars

\* ... of a sprite constructed from any accepted times and pattern
InitAnyFrames ==
    InitCore /\ sceneId = [s \in Scenes |-> 0] /\ InitAnySprites /\ InitHost

SpecAnyFrames == InitAnyFrames /\ [][NextFrames]_vars

\* one shape's subscriber registry: subscribe, unsubscribe and dispatch
EventShapes == {1}

NextEvents ==
    \/ OnKinds(EventShapes, EventNames, Callbacks, IdPool, MaxSubs)
    \/ OffKinds(EventShapes, EventNames, IdPool)
    \/ HandleEventCall(EventShapes, EventNames)
    \/ CallbackPlain \/ HandleEventReturn \/ TaskEnd

SpecEvents == InitLoop /\ [][NextEvents]_vars

\* ... of scenes whose ids are any that __cglRandomID() may have returned
SpecIds == Init /\ [][NextEvents]_vars

\* ... with callbacks that unsubscribe during the dispatch
NextUnsub ==
    \/ OnKinds(EventShapes, EventNames, Callbacks, IdPool, MaxSubs)
    \/ HandleEventCall(EventShapes, EventNames)
    \/ CallbackPlain \/ CallbackOff \/ HandleEventReturn \/ TaskEnd

SpecUnsub == InitLoop /\ [][NextUnsub]_vars

\* the same with event names of every sort
AllNames == EventNames \cup OtherNames \cup {NotAString}

NextKinds ==
    \/ OnKinds(EventShapes, AllNames, {"f"}, {0}, MaxListeners)
    \/ OffKinds(EventShapes, AllNames, {0})
    \/ HandleEventCall(EventShapes, AllNames)
    \/ CallbackPlain \/ HandleEventReturn \/ TaskEnd

SpecKinds == InitLoop /\ [][NextKinds]_vars

(***************************************************************************)
(* Attachment                                                               *)
(***************************************************************************)
\* the places <<scene, index>> at which shape sh stands in a shape list
Places(sh) == {pl \in Scenes \X (1..NumShapes) :
                 pl[2] <= Len(children[pl[1]]) /\ children[pl[1]][pl[2]] = sh}

\* C1: append(shape) and prepend(shape) throw when the shape's canvasID is
\* already set, whichever scene owns it, and the failed call changes no
\* shape list and no canvasID.
C1_AttachedShapeRejected ==
    [][(/\ op'.call \in {"append", "prepend"}
        /\ op'.shape # NoObj
        /\ canvasID[op'.shape] # Null)
       => (op'.threw /\ children' = children /\ canvasID' = canvasID)]_vars

\* an attached shape was offered to a scene that does not hold it, and to
\* the scene that holds it
C1_Witness ==
    /\ op.call \in {"append", "prepend"} /\ op.threw /\ op.shape # NoObj
    /\ \E pl \in Places(op.shape) : pl[1] # op.scene

\* C2: every shape stands in at most one shape list and at most once in it;
\* its canvasID is null exactly when it stands in none, otherwise it is the
\* id of the scene whose list holds it; once set it never changes.
C2_SingleOwner ==
    /\ [](\A sh \in Shapes :
            /\ Cardinality(Places(sh)) <= 1
            /\ (canvasID[sh] = Null) <=> (Places(sh) = {})
            /\ \A pl \in Places(sh) : canvasID[sh] = <<sceneId[pl[1]]>>)
    /\ [][\A sh \in Shapes :
            canvasID[sh] # Null => canvasID'[sh] = canvasID[sh]]_vars

\* two scenes hold shapes, the last of them attached by a prepend
C2_Witness ==
    /\ \E s, o \in Scenes : s # o /\ children[s] # <<>> /\ children[o] # <<>>
    /\ op.call = "prepend" /\ ~op.threw

(***************************************************************************)
(* Dispatch                                                                 *)
(***************************************************************************)
\* the places in scene s's paint order of the visible, non-click-ignoring
\* shapes that contain point p
Interactive(s, p) ==
    {i \in 1..Len(children[s]) :
        /\ isVisible[children[s][i]]
        /\ ~ignoreClicks[children[s][i]]
        /\ IsPointInBounds(children[s][i], p[1], p[2])}

Topmost(s, p) == children[s][CHOOSE i \in Interactive(s, p) :
                                \A j \in Interactive(s, p) : j <= i]

\* every subscription of one kind on shape sh, once each, in the order made
Subscribers(sh, eventName) ==
    [i \in 1..Len(eventListeners[sh][eventName]) |->
        [kind |-> eventName, shape |-> sh,
         callback |-> eventListeners[sh][eventName][i].callback,
         id |-> eventListeners[sh][eventName][i].id]]

\* what reaches the subscribers when an event of a kind is resolved at p
Expected(s, p, eventName) ==
    IF Interactive(s, p) = {} THEN <<>> ELSE Subscribers(Topmost(s, p), eventName)

\* C3: a click at p invokes the click subscribers of the last shape in paint
\* order among the visible, non-click-ignoring shapes containing p, and no
\* other callback; with no such shape nothing is invoked.
C3_ClickGoesToTopmost ==
    op.done = "click" => invoked = Expected(op.scene, op.pos, "click")

\* a click on two overlapping subscribed shapes has been delivered
C3_Witness ==
    /\ op.done = "click"
    /\ invoked # <<>>
    /\ \E i, j \in Interactive(op.scene, op.pos) :
            i < j /\ eventListeners[children[op.scene][i]].click # <<>>

\* a render pass, entered from start() or from the timer, has run to its end
PassDone == op.done \in {"start", "timer"}

\* C4: no click or hover subscriber of a shape that is invisible or ignores
\* clicks is invoked, and such a shape does not block the event: it goes to
\* the topmost remaining shape containing the point.
C4_HiddenShapesAreSkipped ==
    /\ \A k \in 1..Len(invoked) :
            isVisible[invoked[k].shape] /\ ~ignoreClicks[invoked[k].shape]
    /\ op.done = "click" => invoked = Expected(op.scene, op.pos, "click")
    /\ (PassDone /\ op.pos # Null) => invoked = Expected(op.scene, op.pos, "hover")

\* a hover went to a shape lying under a subscribed shape that contains the
\* pointer but is invisible or ignores clicks
C4_Witness ==
    /\ PassDone /\ op.pos # Null
    /\ invoked # <<>>
    /\ \E i \in Interactive(op.scene, op.pos), j \in 1..Len(children[op.scene]) :
            /\ i < j
            /\ IsPointInBounds(children[op.scene][j], op.pos[1], op.pos[2])
            /\ (~isVisible[children[op.scene][j]] \/ ignoreClicks[children[op.scene][j]])
            /\ eventListeners[children[op.scene][j]].hover # <<>>

\* C10: a render pass with the pointer known and inside no visible,
\* non-click-ignoring shape invokes no hover subscriber and leaves the
\* surface's cursor empty.
C10_IdleCursorReset ==
    (PassDone /\ op.pos # Null /\ Interactive(op.scene, op.pos) = {})
        => (invoked = <<>> /\ cursorStyle[op.scene] = "")

\* such a pass has run with the pointer inside a hidden shape that has a
\* cursor token and a hover subscriber
C10_Witness ==
    /\ PassDone /\ op.pos # Null /\ Interactive(op.scene, op.pos) = {}
    /\ \E i \in 1..Len(children[op.scene]) :
            /\ IsPointInBounds(children[op.scene][i], op.pos[1], op.pos[2])
            /\ ShapeCursor(children[op.scene][i]) # ""
            /\ eventListeners[children[op.scene][i]].hover # <<>>

\* C11: a render pass with the pointer known and inside at least one visible,
\* non-click-ignoring shape invokes the hover subscribers of the topmost such
\* shape, each once and in order, and no other callback; after the pass the
\* surface's cursor is that shape's cursor token.
C11_HoverGoesToTopmost ==
    (PassDone /\ op.pos # Null /\ Interactive(op.scene, op.pos) # {})
        => /\ invoked = Subscribers(Topmost(op.scene, op.pos), "hover")
           /\ cursorStyle[op.scene] = ShapeCursor(Topmost(op.scene, op.pos))

\* a pass delivered a hover to the upper of two overlapping subscribed shapes
\* whose cursor tokens differ
C11_Witness ==
    /\ PassDone /\ op.pos # Null
    /\ invoked # <<>>
    /\ \E i, j \in Interactive(op.scene, op.pos) :
            /\ i < j
            /\ eventListeners[children[op.scene][i]].hover # <<>>
            /\ ShapeCursor(children[op.scene][i]) # ShapeCursor(children[op.scene][j])

\* the points of the scene a click can be resolved at
ClickPoints == (0..MaxPx) \X (0..(CanvasHeight + 1))

\* C34: while the stored pointer position of a scene is null (after a
\* pointer-left notification and until the next pointer move) no step, and
\* so no render pass, invokes a hover subscriber or changes the cursor of
\* the surface; a click is still resolved to the topmost interactive shape
\* at its point.
C34_NoHoverAfterLeave ==
    [][\A s \in LoopScenes :
        mousePos[s] = Null =>
            /\ cursorStyle'[s] = cursorStyle[s]
            /\ \A k \in 1..Len(invoked') :
                    invoked'[k].kind = "hover" =>
                        k <= Len(invoked) /\ invoked[k] = invoked'[k]
            /\ \A p \in ClickPoints :
                    (op'.done = "click" /\ op'.scene = s /\ op'.pos = p)
                        => invoked' = Expected(s, p, "click")']_vars

\* a pass has completed with the pointer gone, over a shape with a hover
\* subscriber that an earlier pass had hovered: the cursor is still that
\* shape's and nothing was invoked
C34_Witness ==
    /\ PassDone
    /\ mousePos[op.scene] = Null
    /\ cursorStyle[op.scene] = "grab"
    /\ children[op.scene] # <<>>
    /\ eventListeners[1].hover # <<>>
    /\ isVisible[1] /\ ~ignoreClicks[1]
    /\ invoked = <<>>

\* C27: a click or pointer move the host reports at the surface pixel
\* (px, py), counted from the top left, is taken to the point (px, H - py),
\* H being the height of the scene when the event arrives: the click is
\* dispatched to the topmost visible, click-accepting shape containing that
\* point, and the pointer position stored is that point.
C27_PointerIsFlipped ==
    [][(op.call = "none" /\ op'.call \in {"click", "mousemove"}) =>
        \E s \in Scenes, px \in 0..MaxPx, py \in 0..CanvasHeight :
            LET hits == ChildrenAt(s, px, height[s] - py, TRUE, TRUE)
            IN /\ op'.scene = s /\ op'.arg = <<px, py>>
               /\ op'.pos = <<px, height[s] - py>>
               /\ op'.call = "mousemove" => mousePos'[s] = <<px, height[s] - py>>
               /\ op'.call = "click" =>
                    op'.shape = IF hits = <<>> THEN 0 ELSE hits[Len(hits)]]_vars

\* a click, after the scene was made one pixel higher, on the pixel row that
\* lay inside shape 1 before: it now lies on its upper edge and hits nothing
C27_Witness ==
    /\ op.call = "click"
    /\ height[op.scene] = CanvasHeight + 1
    /\ children[op.scene] = <<1>>
    /\ op.arg = <<0, CanvasHeight - 1>>
    /\ op.pos = <<0, 2>>
    /\ op.shape = 0

(***************************************************************************)
(* Subscriptions                                                            *)
(***************************************************************************)
\* C12: a dispatch of kind k on a shape invokes the callbacks subscribed for
\* k on it, each subscription once and in the order the subscriptions were
\* made, and no callback of the other kind.
C12_DispatchInOrder ==
    (op.done = "handleEvent" /\ op.kind \in EventNames)
        => invoked = Subscribers(op.shape, op.kind)

\* a dispatch ran two different callbacks of its kind while the other kind
\* had a subscriber too
C12_Witness ==
    /\ op.done = "handleEvent" /\ op.kind \in EventNames
    /\ Len(invoked) = 2 /\ invoked[1].callback = "g" /\ invoked[2].callback = "f"
    /\ \E k \in EventNames \ {op.kind} : eventListeners[op.shape][k] # <<>>

\* C13: off(kind, id) with the id of a subscription of that kind removes
\* exactly that one entry and keeps the rest in order; off(kind) empties the
\* kind's list; either leaves the other kind's list as it was.
C13_OffRemovesOne ==
    [][(op'.call = "off" /\ ~op'.threw /\ op'.kind \in EventNames)
       => LET sh == op'.shape
              list == eventListeners[sh][op'.kind]
              hits == {i \in 1..Len(list) : <<list[i].id>> = op'.id}
          IN /\ \A k \in EventNames \ {op'.kind} :
                    eventListeners'[sh][k] = eventListeners[sh][k]
             /\ op'.id = Null => eventListeners'[sh][op'.kind] = <<>>
             /\ hits # {} =>
                    \E i \in hits : eventListeners'[sh][op'.kind] = Splice(list, i)]_vars

\* the subscriptions of shape sh that are live, as <<kind, place in the list>>
Live(sh) ==
    {<<k, i>> \in EventNames \X (1..MaxSubs) : i <= Len(eventListeners[sh][k])}

\* C28: the ids generated within one process are pairwise distinct: no two
\* scenes share an id and no two live subscriptions of one shape share a
\* subscription id.
C28_IdsDistinct ==
    /\ \A s, t \in Scenes : s # t => sceneId[s] # sceneId[t]
    /\ \A sh \in Shapes : \A a, b \in Live(sh) :
            a # b => eventListeners[sh][a[1]][a[2]].id # eventListeners[sh][b[1]][b[2]].id

\* the callbacks of the current task that are entries of list, as entries
InvokedOf(list) ==
    LET called == SelectSeq(invoked, LAMBDA c :
                    \E i \in 1..Len(list) :
                        list[i] = [callback |-> c.callback, id |-> c.id])
    IN [i \in 1..Len(called) |-> [callback |-> called[i].callback, id |-> called[i].id]]

\* C33: when callbacks of a dispatch of kind k on a shape unsubscribe
\* themselves or other subscribers of k, every callback that was subscribed
\* when the dispatch began and has not been unsubscribed (here: every entry
\* the list still holds when the dispatch ends, the entries being distinct)
\* has been invoked exactly once in that dispatch, in registration order.
C33_UnsubscribeInDispatch ==
    (/\ op.done = "handleEvent" /\ op.kind \in EventNames
     /\ \A i, j \in 1..Len(eventListeners[op.shape][op.kind]) :
            i # j => eventListeners[op.shape][op.kind][i]
                        # eventListeners[op.shape][op.kind][j])
    => InvokedOf(eventListeners[op.shape][op.kind])
            = eventListeners[op.shape][op.kind]

\* C14: on() and off() with a name other than "click" and "hover" throw and
\* leave the registry as it was.
C14_BadKindRejected ==
    [][(op'.call \in {"on", "off"} /\ op'.kind \notin EventNames)
       => (op'.threw /\ eventListeners' = eventListeners)]_vars

(***************************************************************************)
(* Integration                                                              *)
(***************************************************************************)
\* C15: an integration step after dt seconds adds acceleration * dt to the
\* velocity, then the new velocity * dt to the position, adds angular
\* acceleration * dt to the angular velocity, and stores the current time as
\* the last update; from x = 0 with velocity.x = 10, no acceleration and
\* dt = 0.5 s it ends at x = 5.
C15_MoveIntegrates ==
    [][op'.call = "move" =>
        LET b == physics[op'.shape]
            c == physics'[op'.shape]
            dt == now - b.lastUpdate
        IN /\ 1000 * c.velocity.x = 1000 * b.velocity.x + b.acceleration.x * dt
           /\ 1000 * c.velocity.y = 1000 * b.velocity.y + b.acceleration.y * dt
           /\ 1000 * c.x = 1000 * b.x + c.velocity.x * dt
           /\ 1000 * c.y = 1000 * b.y + c.velocity.y * dt
           /\ 1000 * c.angularVelocity =
                    1000 * b.angularVelocity + b.angularAcceleration * dt
           /\ c.lastUpdate = now'
           /\ (b.x = 0 /\ b.velocity.x = 10 /\ b.acceleration.x = 0 /\ dt = 500)
                    => c.x = 5]_vars

\* the step of the scenario has been taken
C15_Witness ==
    /\ op.call = "move"
    /\ physics[op.shape].x = 5 /\ physics[op.shape].velocity.x = 10
    /\ physics[op.shape].acceleration.x = 0
    /\ physics[op.shape].lastUpdate = 500 /\ now = 500

(***************************************************************************)
(* Sprites                                                                  *)
(***************************************************************************)
\* the sprite fields of shape sh
Sprite(sh) == geometry[sh].frames[1]

\* d_0 + .. + d_(i-1) of sprite f
Before(f, i) == SumSeq(SubSeq(f.frameTimes, 1, i))

\* C21: for a sprite with positive durations d_0..d_(n-1) and cycle D, an
\* integration step at elapsed e = (now - origin) mod D selects the pattern
\* position i with d_0+..+d_(i-1) <= e < d_0+..+d_i and sets the source to
\* frames[pattern[i]]; frames [f0,f1], 100 ms each, pattern [0,1]: elapsed
\* 50 ms gives f0, 150 ms f1, 250 ms f0.
C21_FrameFollowsElapsed ==
    (/\ op.call = "move" /\ kind[op.shape] = "frames"
     /\ \A k \in 1..Len(Sprite(op.shape).pattern) : Sprite(op.shape).pattern[k] # Null)
    => LET f == Sprite(op.shape)
           e == (now - f.createdTimestamp) % SumSeq(f.frameTimes)
           i == f.frameIndex
       IN /\ ~op.threw
          /\ i \in 0..(Len(f.pattern) - 1)
          /\ Before(f, i) <= e /\ e < Before(f, i + 1)
          /\ geometry[op.shape].src = <<f.frameURLs[f.pattern[i + 1][1] + 1]>>
          /\ (/\ f.frameURLs = <<"f0", "f1">> /\ f.frameTimes = <<100, 100>>
              /\ f.pattern = <<(<<0>>), (<<1>>)>>)
             => /\ now = 50 => geometry[op.shape].src = <<"f0">>
                /\ now = 150 => geometry[op.shape].src = <<"f1">>
                /\ now = 250 => geometry[op.shape].src = <<"f0">>

\* the sprite of the scenario has been stepped 250 ms after its creation
C21_Witness ==
    /\ op.call = "move" /\ kind[op.shape] = "frames"
    /\ Sprite(op.shape).frameURLs = <<"f0", "f1">>
    /\ Sprite(op.shape).frameTimes = <<100, 100>>
    /\ Sprite(op.shape).pattern = <<(<<0>>), (<<1>>)>>
    /\ now = 250
    /\ geometry[op.shape].src = <<"f0">>

\* C22: a sprite constructed without a pattern uses the identity pattern
\* [0,1,...,n-1], so its integration steps select the frames in storage
\* order and each selected source is one of the frame paths.
C22_DefaultPatternIsIdentity ==
    kind[1] = "frames" =>
        /\ Sprite(1).pattern = [i \in 1..Len(Sprite(1).frameURLs) |-> <<i - 1>>]
        /\ (op.call = "move" /\ op.shape = 1) =>
                /\ ~op.threw
                /\ \E i \in 1..Len(Sprite(1).frameURLs) :
                        geometry[1].src = <<Sprite(1).frameURLs[i]>>

(***************************************************************************)
(* Containment                                                              *)
(***************************************************************************)
\* p lies strictly outside the axis-aligned bounding box of the ring xs, ys
OutsideBox(xs, ys, p) ==
    LET xSet == {xs[i] : i \in DOMAIN xs}
        ySet == {ys[i] : i \in DOMAIN ys}
    IN \/ p[1] < MinOf(xSet) \/ p[1] > MaxOf(xSet)
       \/ p[2] < MinOf(ySet) \/ p[2] > MaxOf(ySet)

\* C23: for a polygon at any anchor, a point strictly outside the
\* axis-aligned bounding box of the vertex ring as the test positions it is
\* not contained, in the revision without the bounding-box check (the ring
\* turned about the cached centroid) and in revision 2.0.0 with it (the ring
\* at the anchor).
C23_OutsideBoxNotContained ==
    /\ (/\ op.call = "isPointInBounds"
        /\ kind[op.shape] # "ellipse"
        /\ OutsideBox(XVert(op.shape), YVert(op.shape), op.pos))
            => op.arg = <<FALSE>>
    /\ (/\ op.call = "isPointInBounds@2.0.0"
        /\ OutsideBox(XVert_2_0_0(op.shape), YVert_2_0_0(op.shape), op.pos))
            => op.arg = <<FALSE>>

\* a test of revision 2.0.0 on a polygon that has drifted: the point is
\* outside the ring's box and inside the cached bounds, so the loop decides
C23_Witness ==
    /\ op.call = "isPointInBounds@2.0.0"
    /\ kind[op.shape] = "poly"
    /\ OutsideBox(XVert_2_0_0(op.shape), YVert_2_0_0(op.shape), op.pos)
    /\ op.pos[1] >= geometry[op.shape].box.minX
    /\ op.pos[1] <= geometry[op.shape].box.maxX
    /\ op.pos[2] >= geometry[op.shape].box.minY
    /\ op.pos[2] <= geometry[op.shape].box.maxY
    /\ op.arg = <<FALSE>>

\* the step just taken is an integration step of shape sh with no linear
\* velocity that advances the rotation by angularVelocity * dt = 360
FullTurnStep(sh) ==
    /\ op'.call = "move" /\ op'.shape = sh
    /\ physics'[sh].velocity = [x |-> 0, y |-> 0]
    /\ Times(physics'[sh].angularVelocity, now - physics[sh].lastUpdate) = 360

\* C24: when an integration step advances the rotation of a polygon, a
\* rectangle or an ellipse by exactly 360 degrees, with no linear velocity,
\* the containment test gives at every fixed point the result it gave before
\* the step.
C24_FullTurnKeepsContainment ==
    [][\A sh \in Movers :
        FullTurnStep(sh) =>
            \A p \in Grid : HitTest(sh, p[1], p[2])' = HitTest(sh, p[1], p[2])]_vars

\* a triangle after the one half-second step that took its angular velocity
\* from 0 to 720 degrees/s and its rotation through a full turn
C24_Witness ==
    /\ op.call = "move" /\ op.shape = 1
    /\ kind[1] = "poly"
    /\ physics[1].velocity = [x |-> 0, y |-> 0]
    /\ physics[1].angularAcceleration = 1440
    /\ physics[1].angularVelocity = 720
    /\ physics[1].lastUpdate = 500
    /\ physics[1].rotation = 270
    /\ \E p \in Grid : HitTest(1, p[1], p[2])

\* C25: after every integration step the rotation of the shape lies in
\* [0, 360), whatever the sign and size of its angular velocity and angular
\* acceleration and the time elapsed (here: for a shape whose rotation was in
\* that range before the step).
C25_RotationWrapped ==
    [][\A sh \in Movers :
        (/\ op'.call = "move" /\ op'.shape = sh
         /\ physics[sh].rotation >= 0 /\ physics[sh].rotation < 360)
            => (physics'[sh].rotation >= 0 /\ physics'[sh].rotation < 360)]_vars

\* C31: containment of a polygon follows its position: when an integration
\* step moves the anchor by (dx, dy) and leaves the vertices and the rotation
\* as they were, the test at p + (dx, dy) after the step gives what the test
\* at p gave before it, for every point p, in the centroid revision and in
\* the bounding-extent revision 2.0.0.
C31_ContainmentFollowsAnchor ==
    [][\A sh \in Movers : \A d \in Grid :
        (/\ op'.call = "move" /\ op'.shape = sh
         /\ kind[sh] # "ellipse"
         /\ physics'[sh].rotation = physics[sh].rotation
         /\ d[1] = physics'[sh].x - physics[sh].x
         /\ d[2] = physics'[sh].y - physics[sh].y)
        => \A p \in Grid :
            /\ IsPointInBounds(sh, p[1] + d[1], p[2] + d[2])'
                    = IsPointInBounds(sh, p[1], p[2])
            /\ IsPointInBounds_2_0_0(sh, p[1] + d[1], p[2] + d[2])'
                    = IsPointInBounds_2_0_0(sh, p[1], p[2])]_vars

\* C30: for a polygon at any anchor and rotation, drawing and the
\* containment test turn the vertices about the same surface point by the
\* same angle, so the ring the test uses is the ring that is drawn; this holds
\* after any sequence of integration steps.
C30_DrawnRingIsTestedRing ==
    \A sh \in Movers :
        kind[sh] # "ellipse" =>
            /\ SurfaceXVert(sh) = XVert(sh)
            /\ SurfaceYVert(sh) = YVert(sh)

(***************************************************************************)
(* Drawing                                                                  *)
(***************************************************************************)
\* the shapes of scene s that are visible, in paint order
Visible(s) == SelectSeq(children[s], LAMBDA sh : isVisible[sh])

\* the places in a log where the call `name` was made
Entries(log, name) == {k \in 1..Len(log) : log[k].op = name}

\* the places in the log of the pass where a shape is integrated, and drawn
Moves == Entries(ops, "move")
Draws == Entries(ops, "draw")

\* the i-th least member of a set of numbers
Nth(S, i) == CHOOSE k \in S : Cardinality({j \in S : j < k}) = i - 1

\* C16: in every render pass each visible shape is integrated exactly once,
\* immediately before its own draw, the shapes are processed in paint order,
\* and an invisible shape is neither integrated nor drawn.
C16_MoveThenDraw ==
    PassDone =>
        /\ Cardinality(Moves) = Len(Visible(op.scene))
        /\ Cardinality(Draws) = Len(Visible(op.scene))
        /\ \A i \in 1..Len(Visible(op.scene)) :
                /\ ops[Nth(Moves, i)].shape = Visible(op.scene)[i]
                /\ Nth(Draws, i) = Nth(Moves, i) + 1
                /\ ops[Nth(Draws, i)].shape = Visible(op.scene)[i]
        /\ \A k \in 1..Len(ops) : ops[k].shape # 0 => isVisible[ops[k].shape]

\* a pass over a hidden shape followed by a visible one has completed
C16_Witness ==
    /\ PassDone
    /\ Len(children[op.scene]) = 2
    /\ ~isVisible[children[op.scene][1]]
    /\ isVisible[children[op.scene][2]]
    /\ Cardinality(Moves) = 1

\* the shapes the pass just completed has drawn, in the order of the draws
Drawn == [i \in 1..Cardinality(Draws) |-> ops[Nth(Draws, i)].shape]

\* C26: a successful append puts the shape after, and a successful prepend
\* before, all shapes attached to the scene earlier, so the paint order is the
\* prepended shapes in reverse order of their calls followed by the appended
\* shapes in the order of theirs; and every render pass draws the visible
\* shapes in exactly that order.
C26_PaintOrder ==
    [][/\ (op'.call = "append" /\ ~op'.threw) =>
            children'[op'.scene] = children[op'.scene] \o <<op'.shape>>
       /\ (op'.call = "prepend" /\ ~op'.threw) =>
            children'[op'.scene] = <<op'.shape>> \o children[op'.scene]
       /\ op'.call \notin {"append", "prepend"} => children' = children
       /\ \A s \in Scenes :
            (PassDone' /\ op'.scene = s) => Drawn' = Visible(s)']_vars

\* a pass has drawn, in this order, a shape that was prepended and the shape
\* that was attached before it
C26_Witness ==
    /\ PassDone
    /\ children[op.scene] = <<2, 1>>
    /\ Drawn = <<2, 1>>

\* the shapes the callbacks of the current host task have attached
AttachedInTask ==
    {ops[k].shape : k \in Entries(ops, "append") \cup Entries(ops, "prepend")}

\* the paint order of scene s without them: the list the task started with
ListBefore(s) == SelectSeq(children[s], LAMBDA sh : sh \notin AttachedInTask)

\* the shape an event at p on that list goes to, 0 when there is none
TargetBefore(s, p) ==
    LET under == SelectSeq(ListBefore(s), LAMBDA sh :
                    isVisible[sh] /\ ~ignoreClicks[sh] /\ IsPointInBounds(sh, p[1], p[2]))
    IN IF under = <<>> THEN 0 ELSE under[Len(under)]

\* C32: when a click or hover callback appends or prepends a shape to the
\* scene, the call succeeds; the render pass or hit resolution in progress
\* integrates, draws and resolves each shape of the list it started with
\* once and skips none; and the new shape is drawn and hit-tested from the
\* next pass on.
C32_AttachInCallback ==
    /\ \A k \in Entries(ops, "append") \cup Entries(ops, "prepend") :
            /\ \E s \in Scenes : \E i \in 1..Len(children[s]) :
                    children[s][i] = ops[k].shape
            /\ \A j \in Draws \cup Moves : j < k
    /\ (op.call \in {"append", "prepend"} /\ stack # <<>>) =>
            /\ ~op.threw
            /\ canvasID[op.shape] = <<sceneId[op.scene]>>
    /\ PassDone =>
            /\ Drawn = SelectSeq(ListBefore(op.scene), LAMBDA sh : isVisible[sh])
            /\ [i \in 1..Cardinality(Moves) |-> ops[Nth(Moves, i)].shape] = Drawn
            /\ op.pos # Null => op.shape = TargetBefore(op.scene, op.pos)
    /\ op.done = "click" => op.shape = TargetBefore(op.scene, op.pos)
    /\ op.done \in {"click", "start", "timer"} =>
            /\ \A i \in 1..Len(invoked) : invoked[i].shape = op.shape
            /\ op.shape # 0 =>
                Len(invoked) = Len(eventListeners[op.shape][
                                    IF op.done = "click" THEN "click" ELSE "hover"])

\* a pass whose hover callback appended shape 2 over shape 1, under the
\* pointer: the pass drew shape 1 alone and its hover went to shape 1
C32_Witness ==
    /\ PassDone
    /\ children[op.scene] = <<1, 2>>
    /\ AttachedInTask = {2}
    /\ Drawn = <<1>>
    /\ op.shape = 1
    /\ IsPointInBounds(2, op.pos[1], op.pos[2])
    /\ Len(invoked) = 1

\* the pass after it: shape 2 is drawn, and the hover goes to it
C32_NextPass ==
    /\ PassDone
    /\ AttachedInTask = {}
    /\ Drawn = <<1, 2>>
    /\ op.shape = 2

(***************************************************************************)
(* Mutation                                                                 *)
(***************************************************************************)
\* C17: for a Rectangle of height h and any w >= 0, width := w completes
\* without error, after which width reads w and the vertex list is
\* [(0,0),(0,h),(w,h),(w,0)]; symmetrically for height := h' >= 0.
C17_SizeRoundTrip ==
    (/\ op.call \in {"width", "height"}
     /\ kind[op.shape] = "rect"
     /\ op.arg # Null
     /\ op.arg[1] >= 0)
    => /\ ~op.threw
       /\ (op.call = "width" => geometry[op.shape].width = op.arg)
       /\ (op.call = "height" => geometry[op.shape].height = op.arg)
       /\ geometry[op.shape].vertices =
            <<<<0, 0>>, <<0, geometry[op.shape].height[1]>>,
              <<geometry[op.shape].width[1], geometry[op.shape].height[1]>>,
              <<geometry[op.shape].width[1], 0>>>>

\* C29: every polygon (rectangle, image and sprite included) has at least
\* 3 vertices in every reachable state; no assignment, vertex-list
\* replacement included, leaves it with fewer.
C29_AtLeastThreeVertices ==
    \A sh \in Shapes : kind[sh] # "ellipse" => Len(geometry[sh].vertices) >= 3

\* C18: a width, height, vertices or src assignment that raises an error
\* leaves the shape's width, height, vertex list, cached centroid and image
\* resource exactly as they were before the call.
C18_ErrorLeavesShapeAlone ==
    [][(op'.call \in {"width", "height", "vertices", "src"} /\ op'.threw)
        => /\ geometry'[op'.shape].width = geometry[op'.shape].width
           /\ geometry'[op'.shape].height = geometry[op'.shape].height
           /\ geometry'[op'.shape].vertices = geometry[op'.shape].vertices
           /\ geometry'[op'.shape].centroidX = geometry[op'.shape].centroidX
           /\ geometry'[op'.shape].centroidY = geometry[op'.shape].centroidY
           /\ geometry'[op'.shape].src = geometry[op'.shape].src
           /\ geometry'[op'.shape].img = geometry[op'.shape].img]_vars

\* C19: for every shape variant, a draw of a shape whose fill colour is
\* "transparent" issues no fill operation, and a draw of a shape whose
\* outline colour is "transparent" issues no stroke operation.
C19_TransparentIssuesNothing ==
    \A k \in 1..Len(ops) :
        /\ ops[k].op = "fill" => paint[ops[k].shape].fillColor # "transparent"
        /\ ops[k].op = "stroke" => paint[ops[k].shape].outlineColor # "transparent"

\* C20: after every completed render pass the context's transform, line
\* width and fill style equal their values from before the pass, whatever
\* the kinds, motion and rotation of the shapes; each shape's draw leaves the
\* transform as it found it.
C20_PassRestoresContext ==
    [][op'.done \in {"start", "timer"} =>
        /\ ctx'.transform = ctx.transform
        /\ ctx'.lineWidth = ctx.lineWidth
        /\ ctx'.fillStyle = ctx.fillStyle
        /\ LET log == ops'
           IN \A i \in 1..Cardinality(Entries(log, "draw")) :
                log[Nth(Entries(log, "drawn"), i)].transform =
                    log[Nth(Entries(log, "draw"), i)].transform]_vars

\* a pass has completed that drew a moving, turned image and a rectangle on
\* a context whose line width and fill style the page had set
C20_Witness ==
    /\ PassDone
    /\ ctx.lineWidth = 3 /\ ctx.fillStyle = "#00ff00"
    /\ Cardinality(Draws) = 2
    /\ \E k \in Entries(ops, "drawImage") :
            /\ physics[ops[k].shape].rotation = 90
            /\ physics[ops[k].shape].x = 5

(***************************************************************************)
(* The loop                                                                 *)
(***************************************************************************)
Scheduled(s) == {t \in timers : t.scene = s}
Running(s) == refreshTimeout[s] # Null
InProgress(s) == {k \in 1..Len(stack) : stack[k].kind = "hover" /\ stack[k].scene = s}

\* C5: once stop() has been called and the pass in progress, if any, has
\* finished, the scene is stopped until start() is called again.
C5_StopStops ==
    \A s \in Scenes : (stopCalled[s] /\ InProgress(s) = {}) => ~Running(s)

\* C6: stop() raises no error and leaves the scene stopped with no scheduled
\* pass, whether the scene was running or already stopped.
C6_StopIdempotent ==
    op.call = "stop" =>
        (~op.threw /\ ~Running(op.scene) /\ Scheduled(op.scene) = {})

\* C7: start() on a running scene runs no pass, schedules nothing, enters no
\* dispatch and leaves the pending pass pending.
C7_StartWhileRunningIsNoOp ==
    [][(op'.call = "start" /\ Running(op'.scene))
       => (/\ refreshTimeout' = refreshTimeout
           /\ timers' = timers
           /\ cursorStyle' = cursorStyle
           /\ children' = children
           /\ Len(stack') <= Len(stack)
           /\ op'.passes = 0 /\ op'.done = "")]_vars

\* start() was called by a hover callback during a timer's pass
C7_Witness ==
    /\ op.call = "start" /\ op.done = "" /\ op.shape = 0
    /\ Running(op.scene)
    /\ InProgress(op.scene) # {}

\* C8: a start() on a stopped scene has run exactly one render pass when it
\* returns.
C8_StartRunsOnePass == op.done = "start" => op.passes = 1

\* C9: at most one future pass is scheduled for a scene and its passes never
\* overlap.
C9_AtMostOneScheduled ==
    \A s \in Scenes : Cardinality(Scheduled(s)) <= 1 /\ Cardinality(InProgress(s)) <= 1

\* C35: whenever no render pass is executing, the scene reports running
\* exactly when a pass of it is scheduled; also after a pass was aborted by
\* an error raised from a hover callback.
C35_RunningIffScheduled ==
    stack = <<>> => \A s \in Scenes : Running(s) <=> Scheduled(s) # {}

\* the places of the log where this step has integrated shape sh
NewMoves(sh) ==
    {k \in 1..Len(ops') : k > Len(ops) /\ ops'[k].op = "move" /\ ops'[k].shape = sh}

\* C36: the position, velocity and rotation of a shape change only in a step
\* that integrates it, once; and the time such a step applies is all the time
\* since the shape's previous integration step, or since its construction:
\* the time stamp it leaves is the present, and the changes are those of
\* the time since the stamp it found.
C36_ElapsedSinceLastStep ==
    [][\A sh \in Shapes :
        LET gap == now - physics[sh].lastUpdate
        IN /\ physics'[sh] # physics[sh] => NewMoves(sh) # {}
           /\ Cardinality(NewMoves(sh)) <= 1
           /\ NewMoves(sh) # {} =>
                /\ now' = now
                /\ physics'[sh].lastUpdate = now
                /\ physics'[sh].velocity.x
                        = physics[sh].velocity.x + Times(physics[sh].acceleration.x, gap)
                /\ physics'[sh].x = physics[sh].x + Times(physics'[sh].velocity.x, gap)
                /\ physics'[sh].y = physics[sh].y + Times(physics'[sh].velocity.y, gap)
                /\ physics'[sh].angularVelocity
                        = physics[sh].angularVelocity
                            + Times(physics[sh].angularAcceleration, gap)
                /\ physics'[sh].rotation
                        = JsRem(physics[sh].rotation
                                    + Times(physics'[sh].angularVelocity, gap), 360)]_vars

\* a pass at 500 ms has integrated shape 1, constructed at 0 ms and not
\* integrated in between for being unattached, hidden or in a stopped scene:
\* it has moved by its velocity over the whole 500 ms, and is stamped 500
C36_Witness ==
    /\ PassDone
    /\ now = 500
    /\ \E k \in Moves : ops[k].shape = 1
    /\ physics[1].lastUpdate = 500
    /\ physics[1].acceleration = [x |-> 0, y |-> 0]
    /\ physics[1].velocity.x = 10
    /\ physics[1].x = 5

\* C37: for every frame time, or list of frame times, the sprite constructor
\* accepts, zero and negative times included, the frame walk of every
\* integration step terminates: the step returns.
C37_FrameWalkTerminates ==
    (op.call = "move" /\ kind[op.shape] = "frames") => op.done # "never"

\* C38: a pattern the sprite constructor accepts has only indices of
\* 0..n-1, n the number of frames, and as many entries as there are frame
\* times; so every integration step returns with one of the frame paths as
\* the source.
C38_PatternInRange ==
    kind[1] = "frames" =>
        /\ \A k \in 1..Len(Sprite(1).pattern) :
                /\ Sprite(1).pattern[k] # Null
                /\ Sprite(1).pattern[k][1] \in 0..(Len(Sprite(1).frameURLs) - 1)
        /\ Len(Sprite(1).pattern) = Len(Sprite(1).frameTimes)
        /\ (op.call = "move" /\ op.shape = 1 /\ op.done # "never") =>
                /\ ~op.threw
                /\ \E i \in 1..Len(Sprite(1).frameURLs) :
                        geometry[1].src = <<Sprite(1).frameURLs[i]>>

====
